---- MODULE Spec2Model ----
(***************************************************************************)
(* SLIPC: SLIP (RFC 1055) encoder and decoder over a pull-based byte       *)
(* source (reader) and a push-based byte sink (writer).                    *)
(*                                                                         *)
(* The library functions of src/src/slipc.c and src/src/slipc_io.c are     *)
(* operators that take the objects they work on and return the result      *)
(* together with the objects as the call leaves them.  The state machine   *)
(* below is a caller of the library: it creates readers, writers,          *)
(* encoders and decoders and calls the library on them.                    *)
(***************************************************************************)
EXTENDS Integers, Sequences, FiniteSets, TLC

(***************************************************************************)
(* Bounds of the model.                                                    *)
(***************************************************************************)
\* longest payload / wire buffer handed to the library
MaxLen == 3
\* longest scripted behaviour of a caller-supplied reader callback
MaxReadScript == 2
\* a caller-supplied writer callback fails at its k-th call, k <= MaxFailAt;
\* also the largest capacity of an array writer
MaxFailAt == 3
\* most transfer or packet calls one behaviour makes on the same objects
MaxCalls == 2
\* most byte-level calls one behaviour makes on the same objects
MaxSteps == 3
\* longest noise before, payload in, and trailing bytes after a framed packet
MaxNoise == 2

(***************************************************************************)
(* slipc_char_t                                                            *)
(***************************************************************************)
SLIPC_END == 192
SLIPC_ESC == 219
SLIPC_ESC_END == 220
SLIPC_ESC_ESC == 221

\* byte values that are none of the four reserved ones
PlainBytes == {9}
Byte == {SLIPC_END, SLIPC_ESC, SLIPC_ESC_END, SLIPC_ESC_ESC} \cup PlainBytes

(***************************************************************************)
(* Result codes.                                                           *)
(***************************************************************************)
SLIPC_IO_WRITER_OK == "SLIPC_IO_WRITER_OK"
SLIPC_IO_WRITER_EOF == "SLIPC_IO_WRITER_EOF"
SLIPC_IO_WRITER_ERROR == "SLIPC_IO_WRITER_ERROR"
WriterResult == {SLIPC_IO_WRITER_OK, SLIPC_IO_WRITER_EOF, SLIPC_IO_WRITER_ERROR}

SLIPC_IO_READER_EOF == "SLIPC_IO_READER_EOF"
SLIPC_IO_READER_MORE == "SLIPC_IO_READER_MORE"
SLIPC_IO_READER_ERROR == "SLIPC_IO_READER_ERROR"
ReaderResult == {SLIPC_IO_READER_EOF, SLIPC_IO_READER_MORE, SLIPC_IO_READER_ERROR}

SLIPC_ENCODER_OK == "SLIPC_ENCODER_OK"
SLIPC_ENCODER_IO_ERROR == "SLIPC_ENCODER_IO_ERROR"
EncoderResult == {SLIPC_ENCODER_OK, SLIPC_ENCODER_IO_ERROR}

SLIPC_DECODER_EOF == "SLIPC_DECODER_EOF"
SLIPC_DECODER_MORE == "SLIPC_DECODER_MORE"
SLIPC_DECODER_NOT_FOUND == "SLIPC_DECODER_NOT_FOUND"
SLIPC_DECODER_IO_ERROR == "SLIPC_DECODER_IO_ERROR"
DecoderResult ==
  {SLIPC_DECODER_EOF, SLIPC_DECODER_MORE, SLIPC_DECODER_NOT_FOUND,
   SLIPC_DECODER_IO_ERROR}

(***************************************************************************)
(* Helpers on sequences.                                                   *)
(***************************************************************************)
SeqsUpTo(S, n) == UNION {[1..k -> S] : k \in 0..n}

(***************************************************************************)
(* The wire format (RFC 1055).                                             *)
(***************************************************************************)
\* the wire form of one payload byte
Stuffed(b) ==
  IF b = 192 THEN <<219, 220>> ELSE IF b = 219 THEN <<219, 221>> ELSE <<b>>

\* the wire form of a payload, without delimiters
RECURSIVE Stuff(_)
Stuff(P) == IF P = <<>> THEN <<>> ELSE Stuffed(Head(P)) \o Stuff(Tail(P))

\* the framed packet of payload P
Frame(P, start) == (IF start THEN <<192>> ELSE <<>>) \o Stuff(P) \o <<192>>

(***************************************************************************)
(* Readers.  A reader is a context plus a read callback.                   *)
(*   kind "array": slipc_io_array_reader_t, fields buf (the buffer, with   *)
(*                 pos the offset the C pointer has advanced to) and len;  *)
(*   kind "mock":  a caller-supplied callback; script lists what each      *)
(*                 call returns (byte count, byte, result); once the       *)
(*                 script is used up it returns no bytes and Eof.          *)
(* nreads counts the calls of the callback.                                *)
(***************************************************************************)
slipc_io_array_reader_create(buf, len) ==
  [kind |-> "array", buf |-> buf, pos |-> 0, len |-> len, script |-> <<>>,
   nreads |-> 0]

\* an array reader that reports Eof only on the read that finds no byte left
slipc_array_reader_read_EofLate(ctx, reqlen) ==
  LET n == IF ctx.len < reqlen THEN ctx.len ELSE reqlen
      left == ctx.len - n
  IN [len |-> n,
      data |-> SubSeq(ctx.buf, ctx.pos + 1, ctx.pos + n),
      res |-> IF ctx.len = 0 THEN SLIPC_IO_READER_EOF ELSE SLIPC_IO_READER_MORE,
      reader |-> [ctx EXCEPT !.len = left, !.pos = ctx.pos + n,
                             !.nreads = ctx.nreads + 1]]

\* returns: len (bytes read), data (the bytes), res, reader (afterwards)
slipc_array_reader_read(ctx, reqlen) ==
  LET n == IF ctx.len < reqlen THEN ctx.len ELSE reqlen
      left == ctx.len - n
  IN [len |-> n,
      data |-> SubSeq(ctx.buf, ctx.pos + 1, ctx.pos + n),
      res |-> IF left = 0 THEN SLIPC_IO_READER_EOF ELSE SLIPC_IO_READER_MORE,
      reader |-> [ctx EXCEPT !.len = left, !.pos = ctx.pos + n,
                             !.nreads = ctx.nreads + 1]]

MockReader(script) ==
  [kind |-> "mock", buf |-> <<>>, pos |-> 0, len |-> 0, script |-> script,
   nreads |-> 0]

MockReaderRead(ctx, reqlen) ==
  IF ctx.script = <<>>
    THEN [len |-> 0, data |-> <<>>, res |-> SLIPC_IO_READER_EOF,
          reader |-> [ctx EXCEPT !.nreads = ctx.nreads + 1]]
    ELSE LET e == Head(ctx.script)
         IN [len |-> e.len,
             data |-> IF e.len = 0 THEN <<>> ELSE <<e.byte>>,
             res |-> e.res,
             reader |-> [ctx EXCEPT !.script = Tail(ctx.script),
                                    !.nreads = ctx.nreads + 1]]

\* reader->read(reader->user_ctx, &byte, &len)
ReaderRead(reader, reqlen) ==
  IF reader.kind = "array" THEN slipc_array_reader_read(reader, reqlen)
                           ELSE MockReaderRead(reader, reqlen)

(***************************************************************************)
(* Writers.  A writer is a context plus a write callback.                  *)
(*   kind "array": slipc_io_array_writer_t; len is the space left, stored  *)
(*                 the bytes copied into the buffer so far;                *)
(*   kind "mock":  a caller-supplied callback that accepts every write     *)
(*                 (failAt = 0) or reports failRes, accepting failLen      *)
(*                 bytes, at its failAt-th call.                           *)
(* calls lists the first byte of every write attempted on the writer.      *)
(***************************************************************************)
slipc_io_array_writer_create(len) ==
  [kind |-> "array", len |-> len, stored |-> <<>>, calls |-> <<>>,
   failAt |-> 0, failRes |-> SLIPC_IO_WRITER_OK, failLen |-> 0]

\* an array writer that answers OK whenever it stored at least one byte
slipc_array_writer_write_PartialOk(ctx, data, reqlen) ==
  LET n == IF ctx.len < reqlen THEN ctx.len ELSE reqlen
      left == ctx.len - n
  IN [res |-> IF n = 0 THEN SLIPC_IO_WRITER_EOF ELSE SLIPC_IO_WRITER_OK,
      len |-> n,
      writer |-> [ctx EXCEPT !.len = left,
                             !.stored = ctx.stored \o SubSeq(data, 1, n),
                             !.calls = Append(ctx.calls, data[1])]]

\* returns: res, len (bytes written), writer (afterwards)
slipc_array_writer_write(ctx, data, reqlen) ==
  LET n == IF ctx.len < reqlen THEN ctx.len ELSE reqlen
      left == ctx.len - n
  IN [res |-> IF left = 0 THEN SLIPC_IO_WRITER_EOF ELSE SLIPC_IO_WRITER_OK,
      len |-> n,
      writer |-> [ctx EXCEPT !.len = left,
                             !.stored = ctx.stored \o SubSeq(data, 1, n),
                             !.calls = Append(ctx.calls, data[1])]]

MockWriter(failAt, failRes, failLen) ==
  [kind |-> "mock", len |-> 0, stored |-> <<>>, calls |-> <<>>,
   failAt |-> failAt, failRes |-> failRes, failLen |-> failLen]

MockWriterWrite(ctx, data, reqlen) ==
  LET fails == Len(ctx.calls) + 1 = ctx.failAt
      n == IF fails /\ ctx.failLen < reqlen THEN ctx.failLen ELSE reqlen
  IN [res |-> IF fails THEN ctx.failRes ELSE SLIPC_IO_WRITER_OK,
      len |-> n,
      writer |-> [ctx EXCEPT !.stored = ctx.stored \o SubSeq(data, 1, n),
                             !.calls = Append(ctx.calls, data[1])]]

\* writer->write(writer->user_ctx, &byte, &len)
WriterWrite(writer, data, reqlen) ==
  IF writer.kind = "array" THEN slipc_array_writer_write(writer, data, reqlen)
                           ELSE MockWriterWrite(writer, data, reqlen)

(***************************************************************************)
(* Encoder (src/src/slipc.c).                                              *)
(***************************************************************************)
\* static slipc_write_end_byte: returns res, writer
slipc_write_end_byte(writer) ==
  LET w == WriterWrite(writer, <<SLIPC_END>>, 1)
  IN [res |-> w.res, writer |-> w.writer]

\* StuffOf without the case SLIPC_ESC
StuffOf_NoEscCase(byte) ==
  IF byte = SLIPC_END THEN [byte |-> SLIPC_ESC, stuffbyte |-> SLIPC_ESC_END]
  ELSE [byte |-> byte, stuffbyte |-> 0]

\* StuffOf with the two stuff bytes exchanged
StuffOf_Swapped(byte) ==
  IF byte = SLIPC_END THEN [byte |-> SLIPC_ESC, stuffbyte |-> SLIPC_ESC_ESC]
  ELSE IF byte = SLIPC_ESC THEN [byte |-> SLIPC_ESC, stuffbyte |-> SLIPC_ESC_END]
  ELSE [byte |-> byte, stuffbyte |-> 0]

\* StuffOf without the case for END
StuffOf_EndUnstuffed(byte) ==
  IF byte = SLIPC_ESC THEN [byte |-> SLIPC_ESC, stuffbyte |-> SLIPC_ESC_ESC]
  ELSE [byte |-> byte, stuffbyte |-> 0]

\* the byte and the stuffbyte the switch of slipc_encode_byte selects
StuffOf(byte) ==
  IF byte = SLIPC_END THEN [byte |-> SLIPC_ESC, stuffbyte |-> SLIPC_ESC_END]
  ELSE IF byte = SLIPC_ESC THEN [byte |-> SLIPC_ESC, stuffbyte |-> SLIPC_ESC_ESC]
  ELSE [byte |-> byte, stuffbyte |-> 0]

\* slipc_encode_byte going on to the stuff byte after the first write failed
slipc_encode_byte_WritesOn(writer, byte) ==
  LET st == StuffOf(byte)
      w1 == WriterWrite(writer, <<st.byte>>, 1)
      w2 == WriterWrite(w1.writer, <<st.stuffbyte>>, 1)
  IN IF st.stuffbyte # 0
       THEN [res |-> IF w1.res # SLIPC_IO_WRITER_OK \/ w1.len # 1 \/
                        w2.res # SLIPC_IO_WRITER_OK \/ w2.len # 1
                       THEN SLIPC_ENCODER_IO_ERROR ELSE SLIPC_ENCODER_OK,
             writer |-> w2.writer]
       ELSE [res |-> IF w1.res # SLIPC_IO_WRITER_OK \/ w1.len # 1
                       THEN SLIPC_ENCODER_IO_ERROR ELSE SLIPC_ENCODER_OK,
             writer |-> w1.writer]

\* returns res, writer
slipc_encode_byte(writer, byte) ==
  LET st == StuffOf(byte)
  IN IF st.stuffbyte # 0
       THEN LET w1 == WriterWrite(writer, <<st.byte>>, 1)
            IN IF w1.res # SLIPC_IO_WRITER_OK \/ w1.len # 1
                 THEN [res |-> SLIPC_ENCODER_IO_ERROR, writer |-> w1.writer]
                 ELSE LET w2 == WriterWrite(w1.writer, <<st.stuffbyte>>, 1)
                      IN IF w2.res # SLIPC_IO_WRITER_OK \/ w2.len # 1
                           THEN [res |-> SLIPC_ENCODER_IO_ERROR, writer |-> w2.writer]
                           ELSE [res |-> SLIPC_ENCODER_OK, writer |-> w2.writer]
       ELSE LET w == WriterWrite(writer, <<st.byte>>, 1)
            IN IF w.res # SLIPC_IO_WRITER_OK \/ w.len # 1
                 THEN [res |-> SLIPC_ENCODER_IO_ERROR, writer |-> w.writer]
                 ELSE [res |-> SLIPC_ENCODER_OK, writer |-> w.writer]

slipc_encoder_new(startbyte) == [startbyte |-> startbyte]

\* a loop that asks the reader for two bytes at a time
RECURSIVE EncoderLoop_ReadsTwo(_, _)
EncoderLoop_ReadsTwo(reader, writer) ==
  LET r == ReaderRead(reader, 2)
  IN IF r.len # 1 \/ r.res = SLIPC_IO_READER_ERROR
       THEN [res |-> SLIPC_ENCODER_IO_ERROR, reader |-> r.reader, writer |-> writer]
       ELSE LET e == slipc_encode_byte(writer, r.data[1])
            IN IF e.res # SLIPC_ENCODER_OK
                 THEN [res |-> SLIPC_ENCODER_IO_ERROR, reader |-> r.reader,
                       writer |-> e.writer]
                 ELSE IF r.res = SLIPC_IO_READER_EOF
                   THEN LET w == slipc_write_end_byte(e.writer)
                        IN [res |-> IF w.res # SLIPC_IO_WRITER_OK
                                      THEN SLIPC_ENCODER_IO_ERROR
                                      ELSE SLIPC_ENCODER_OK,
                            reader |-> r.reader, writer |-> w.writer]
                   ELSE EncoderLoop_ReadsTwo(r.reader, e.writer)

\* a loop that takes a read reporting Eof together with a byte for an error
RECURSIVE EncoderLoop_EofByteIsError(_, _)
EncoderLoop_EofByteIsError(reader, writer) ==
  LET r == ReaderRead(reader, 1)
  IN IF r.len # 1 \/ r.res # SLIPC_IO_READER_MORE
       THEN [res |-> SLIPC_ENCODER_IO_ERROR, reader |-> r.reader, writer |-> writer]
       ELSE LET e == slipc_encode_byte(writer, r.data[1])
            IN IF e.res # SLIPC_ENCODER_OK
                 THEN [res |-> SLIPC_ENCODER_IO_ERROR, reader |-> r.reader,
                       writer |-> e.writer]
                 ELSE EncoderLoop_EofByteIsError(r.reader, e.writer)

\* the while (1) loop of slipc_encoder_transfer: returns res, reader, writer
RECURSIVE EncoderLoop(_, _)
EncoderLoop(reader, writer) ==
  LET r == ReaderRead(reader, 1)
  IN IF r.len # 1 \/ r.res = SLIPC_IO_READER_ERROR
       THEN [res |-> SLIPC_ENCODER_IO_ERROR, reader |-> r.reader, writer |-> writer]
       ELSE LET e == slipc_encode_byte(writer, r.data[1])
            IN IF e.res # SLIPC_ENCODER_OK
                 THEN [res |-> SLIPC_ENCODER_IO_ERROR, reader |-> r.reader,
                       writer |-> e.writer]
                 ELSE IF r.res = SLIPC_IO_READER_EOF
                   THEN LET w == slipc_write_end_byte(e.writer)
                        IN [res |-> IF w.res # SLIPC_IO_WRITER_OK
                                      THEN SLIPC_ENCODER_IO_ERROR
                                      ELSE SLIPC_ENCODER_OK,
                            reader |-> r.reader, writer |-> w.writer]
                   ELSE EncoderLoop(r.reader, e.writer)

\* slipc_encoder_transfer writing no start byte
slipc_encoder_transfer_NoStart(self, reader, writer) ==
  EncoderLoop(reader, writer)

\* returns res, reader, writer
slipc_encoder_transfer(self, reader, writer) ==
  IF self.startbyte
    THEN LET w == slipc_write_end_byte(writer)
         IN IF w.res # SLIPC_IO_WRITER_OK
              THEN [res |-> SLIPC_ENCODER_IO_ERROR, reader |-> reader,
                    writer |-> w.writer]
              ELSE EncoderLoop(reader, w.writer)
    ELSE EncoderLoop(reader, writer)

\* slipc_encode_packet that ignores the start-byte argument
slipc_encode_packet_NeverStart(writer, buf, len, startbyte) ==
  slipc_encoder_transfer(slipc_encoder_new(FALSE),
                         slipc_io_array_reader_create(buf, len), writer)

\* slipc_encode_packet that writes the start byte whatever the argument
slipc_encode_packet_AlwaysStart(writer, buf, len, startbyte) ==
  slipc_encoder_transfer(slipc_encoder_new(TRUE),
                         slipc_io_array_reader_create(buf, len), writer)

\* returns res, reader, writer
slipc_encode_packet(writer, buf, len, startbyte) ==
  slipc_encoder_transfer(slipc_encoder_new(startbyte),
                         slipc_io_array_reader_create(buf, len), writer)

(***************************************************************************)
(* Decoder (src/src/slipc.c).                                              *)
(***************************************************************************)
slipc_decoder_new(startbyte) ==
  [startbyte |-> startbyte, prev |-> SLIPC_END, malformed |-> FALSE]

\* the decoder after slipc_decoder_init(self, startbyte)
slipc_decoder_init(self, startbyte) == slipc_decoder_new(startbyte)

slipc_decoder_is_malformed(self) == self.malformed

\* static slipc_write_byte: returns res, writer
slipc_write_byte(writer, byte) ==
  LET w == WriterWrite(writer, <<byte>>, 1)
  IN [res |-> w.res, writer |-> w.writer]

\* slipc_decode_byte that passes a malformed byte through without setting
\* the malformed flag
slipc_decode_byte_NoFlag(self, writer, byte) ==
  LET prev == self.prev
      s1 == [self EXCEPT !.prev = byte]
      emit(b) ==
        LET w == slipc_write_byte(writer, b)
        IN [res |-> IF w.res # SLIPC_IO_WRITER_OK THEN SLIPC_DECODER_IO_ERROR
                                                  ELSE SLIPC_DECODER_MORE,
            self |-> s1, writer |-> w.writer]
  IN IF byte = SLIPC_END
       THEN [res |-> SLIPC_DECODER_EOF, self |-> s1, writer |-> writer]
     ELSE IF prev = SLIPC_ESC /\ byte = SLIPC_ESC_END THEN emit(SLIPC_END)
     ELSE IF prev = SLIPC_ESC /\ byte = SLIPC_ESC_ESC THEN emit(SLIPC_ESC)
     ELSE IF prev = SLIPC_ESC THEN emit(byte)
     ELSE IF byte = SLIPC_ESC
       THEN [res |-> SLIPC_DECODER_MORE, self |-> s1, writer |-> writer]
     ELSE emit(byte)

\* slipc_decode_byte that clears the malformed flag when a packet ends
slipc_decode_byte_ClearsAtEnd(self, writer, byte) ==
  LET prev == self.prev
      s1 == [self EXCEPT !.prev = byte]
      emit(s, b) ==
        LET w == slipc_write_byte(writer, b)
        IN [res |-> IF w.res # SLIPC_IO_WRITER_OK THEN SLIPC_DECODER_IO_ERROR
                                                  ELSE SLIPC_DECODER_MORE,
            self |-> s, writer |-> w.writer]
  IN IF byte = SLIPC_END
       THEN [res |-> SLIPC_DECODER_EOF, self |-> [s1 EXCEPT !.malformed = FALSE],
             writer |-> writer]
     ELSE IF prev = SLIPC_ESC /\ byte = SLIPC_ESC_END THEN emit(s1, SLIPC_END)
     ELSE IF prev = SLIPC_ESC /\ byte = SLIPC_ESC_ESC THEN emit(s1, SLIPC_ESC)
     ELSE IF prev = SLIPC_ESC THEN emit([s1 EXCEPT !.malformed = TRUE], byte)
     ELSE IF byte = SLIPC_ESC
       THEN [res |-> SLIPC_DECODER_MORE, self |-> s1, writer |-> writer]
     ELSE emit(s1, byte)

\* slipc_decode_byte that unstuffs ESC_END and ESC_ESC in every state
slipc_decode_byte_UnstuffsAlways(self, writer, byte) ==
  LET prev == self.prev
      s1 == [self EXCEPT !.prev = byte]
      emit(s, b) ==
        LET w == slipc_write_byte(writer, b)
        IN [res |-> IF w.res # SLIPC_IO_WRITER_OK THEN SLIPC_DECODER_IO_ERROR
                                                  ELSE SLIPC_DECODER_MORE,
            self |-> s, writer |-> w.writer]
  IN IF byte = SLIPC_END
       THEN [res |-> SLIPC_DECODER_EOF, self |-> s1, writer |-> writer]
     ELSE IF byte = SLIPC_ESC_END THEN emit(s1, SLIPC_END)
     ELSE IF byte = SLIPC_ESC_ESC THEN emit(s1, SLIPC_ESC)
     ELSE IF prev = SLIPC_ESC THEN emit([s1 EXCEPT !.malformed = TRUE], byte)
     ELSE IF byte = SLIPC_ESC
       THEN [res |-> SLIPC_DECODER_MORE, self |-> s1, writer |-> writer]
     ELSE emit(s1, byte)

\* slipc_decode_byte that returns on END before it records the byte in prev
slipc_decode_byte_EndKeepsPrev(self, writer, byte) ==
  LET prev == self.prev
      s1 == [self EXCEPT !.prev = byte]
      emit(s, b) ==
        LET w == slipc_write_byte(writer, b)
        IN [res |-> IF w.res # SLIPC_IO_WRITER_OK THEN SLIPC_DECODER_IO_ERROR
                                                  ELSE SLIPC_DECODER_MORE,
            self |-> s, writer |-> w.writer]
  IN IF byte = SLIPC_END
       THEN [res |-> SLIPC_DECODER_EOF, self |-> self, writer |-> writer]
     ELSE IF prev = SLIPC_ESC /\ byte = SLIPC_ESC_END THEN emit(s1, SLIPC_END)
     ELSE IF prev = SLIPC_ESC /\ byte = SLIPC_ESC_ESC THEN emit(s1, SLIPC_ESC)
     ELSE IF prev = SLIPC_ESC THEN emit([s1 EXCEPT !.malformed = TRUE], byte)
     ELSE IF byte = SLIPC_ESC
       THEN [res |-> SLIPC_DECODER_MORE, self |-> s1, writer |-> writer]
     ELSE emit(s1, byte)

\* slipc_decode_byte that records in prev the byte it writes
slipc_decode_byte_PrevUnescaped(self, writer, byte) ==
  LET prev == self.prev
      s1 == [self EXCEPT !.prev = byte]
      emit(s, b) ==
        LET w == slipc_write_byte(writer, b)
        IN [res |-> IF w.res # SLIPC_IO_WRITER_OK THEN SLIPC_DECODER_IO_ERROR
                                                  ELSE SLIPC_DECODER_MORE,
            self |-> [s EXCEPT !.prev = b], writer |-> w.writer]
  IN IF byte = SLIPC_END
       THEN [res |-> SLIPC_DECODER_EOF, self |-> s1, writer |-> writer]
     ELSE IF prev = SLIPC_ESC /\ byte = SLIPC_ESC_END THEN emit(s1, SLIPC_END)
     ELSE IF prev = SLIPC_ESC /\ byte = SLIPC_ESC_ESC THEN emit(s1, SLIPC_ESC)
     ELSE IF prev = SLIPC_ESC THEN emit([s1 EXCEPT !.malformed = TRUE], byte)
     ELSE IF byte = SLIPC_ESC
       THEN [res |-> SLIPC_DECODER_MORE, self |-> s1, writer |-> writer]
     ELSE emit(s1, byte)

\* slipc_decode_byte that does not look at the result of the write in the
\* malformed pass-through
slipc_decode_byte_PassThroughUnchecked(self, writer, byte) ==
  LET prev == self.prev
      s1 == [self EXCEPT !.prev = byte]
      emit(s, b) ==
        LET w == slipc_write_byte(writer, b)
        IN [res |-> IF w.res # SLIPC_IO_WRITER_OK THEN SLIPC_DECODER_IO_ERROR
                                                  ELSE SLIPC_DECODER_MORE,
            self |-> s, writer |-> w.writer]
  IN IF byte = SLIPC_END
       THEN [res |-> SLIPC_DECODER_EOF, self |-> s1, writer |-> writer]
     ELSE IF prev = SLIPC_ESC /\ byte = SLIPC_ESC_END THEN emit(s1, SLIPC_END)
     ELSE IF prev = SLIPC_ESC /\ byte = SLIPC_ESC_ESC THEN emit(s1, SLIPC_ESC)
     ELSE IF prev = SLIPC_ESC
       THEN [emit([s1 EXCEPT !.malformed = TRUE], byte)
               EXCEPT !.res = SLIPC_DECODER_MORE]
     ELSE IF byte = SLIPC_ESC
       THEN [res |-> SLIPC_DECODER_MORE, self |-> s1, writer |-> writer]
     ELSE emit(s1, byte)

\* slipc_decode_byte that leaves the decoder as it was when the write fails
slipc_decode_byte_KeepsStateOnError(self, writer, byte) ==
  LET prev == self.prev
      s1 == [self EXCEPT !.prev = byte]
      emit(s, b) ==
        LET w == slipc_write_byte(writer, b)
        IN IF w.res # SLIPC_IO_WRITER_OK
             THEN [res |-> SLIPC_DECODER_IO_ERROR, self |-> self, writer |-> w.writer]
             ELSE [res |-> SLIPC_DECODER_MORE, self |-> s, writer |-> w.writer]
  IN IF byte = SLIPC_END
       THEN [res |-> SLIPC_DECODER_EOF, self |-> s1, writer |-> writer]
     ELSE IF prev = SLIPC_ESC /\ byte = SLIPC_ESC_END THEN emit(s1, SLIPC_END)
     ELSE IF prev = SLIPC_ESC /\ byte = SLIPC_ESC_ESC THEN emit(s1, SLIPC_ESC)
     ELSE IF prev = SLIPC_ESC THEN emit([s1 EXCEPT !.malformed = TRUE], byte)
     ELSE IF byte = SLIPC_ESC
       THEN [res |-> SLIPC_DECODER_MORE, self |-> s1, writer |-> writer]
     ELSE emit(s1, byte)

\* returns res, self, writer
slipc_decode_byte(self, writer, byte) ==
  LET prev == self.prev
      s1 == [self EXCEPT !.prev = byte]
      emit(s, b) ==
        LET w == slipc_write_byte(writer, b)
        IN [res |-> IF w.res # SLIPC_IO_WRITER_OK THEN SLIPC_DECODER_IO_ERROR
                                                  ELSE SLIPC_DECODER_MORE,
            self |-> s, writer |-> w.writer]
  IN IF byte = SLIPC_END
       THEN [res |-> SLIPC_DECODER_EOF, self |-> s1, writer |-> writer]
     ELSE IF prev = SLIPC_ESC /\ byte = SLIPC_ESC_END THEN emit(s1, SLIPC_END)
     ELSE IF prev = SLIPC_ESC /\ byte = SLIPC_ESC_ESC THEN emit(s1, SLIPC_ESC)
     ELSE IF prev = SLIPC_ESC THEN emit([s1 EXCEPT !.malformed = TRUE], byte)
     ELSE IF byte = SLIPC_ESC
       THEN [res |-> SLIPC_DECODER_MORE, self |-> s1, writer |-> writer]
     ELSE emit(s1, byte)

\* slipc_skip_to_start that takes the first byte for the start byte
slipc_skip_to_start_FirstByte(reader) ==
  LET r == ReaderRead(reader, 1)
  IN IF r.len > 1 \/ r.res = SLIPC_IO_READER_ERROR
       THEN [res |-> SLIPC_DECODER_IO_ERROR, reader |-> r.reader]
     ELSE IF r.len = 0
       THEN [res |-> SLIPC_DECODER_NOT_FOUND, reader |-> r.reader]
     ELSE [res |-> SLIPC_DECODER_MORE, reader |-> r.reader]

\* static slipc_skip_to_start: returns res, reader
RECURSIVE slipc_skip_to_start(_)
slipc_skip_to_start(reader) ==
  LET r == ReaderRead(reader, 1)
  IN IF r.len > 1 \/ r.res = SLIPC_IO_READER_ERROR
       THEN [res |-> SLIPC_DECODER_IO_ERROR, reader |-> r.reader]
     ELSE IF r.len = 0
       THEN [res |-> SLIPC_DECODER_NOT_FOUND, reader |-> r.reader]
     ELSE IF r.data[1] = SLIPC_END
       THEN [res |-> SLIPC_DECODER_MORE, reader |-> r.reader]
     ELSE slipc_skip_to_start(r.reader)

\* a loop that goes on reading after the reader reported Eof with a byte
RECURSIVE DecoderLoop_ReadsPastEof(_, _, _)
DecoderLoop_ReadsPastEof(self, reader, writer) ==
  LET r == ReaderRead(reader, 1)
  IN IF r.len = 0 /\ r.res = SLIPC_IO_READER_EOF
       THEN [res |-> SLIPC_DECODER_NOT_FOUND, self |-> self,
             reader |-> r.reader, writer |-> writer]
     ELSE IF r.len # 1 \/ r.res = SLIPC_IO_READER_ERROR
       THEN [res |-> SLIPC_DECODER_IO_ERROR, self |-> self,
             reader |-> r.reader, writer |-> writer]
     ELSE LET d == slipc_decode_byte(self, writer, r.data[1])
          IN IF d.res = SLIPC_DECODER_EOF
               THEN [res |-> SLIPC_DECODER_EOF, self |-> d.self,
                     reader |-> r.reader, writer |-> d.writer]
             ELSE IF d.res # SLIPC_DECODER_MORE
               THEN [res |-> SLIPC_DECODER_MORE, self |-> d.self,
                     reader |-> r.reader, writer |-> d.writer]
             ELSE DecoderLoop_ReadsPastEof(d.self, r.reader, d.writer)

\* a loop that looks at the reader's Eof before the decoder's result
RECURSIVE DecoderLoop_EofBeforeEnd(_, _, _)
DecoderLoop_EofBeforeEnd(self, reader, writer) ==
  LET r == ReaderRead(reader, 1)
  IN IF r.len = 0 /\ r.res = SLIPC_IO_READER_EOF
       THEN [res |-> SLIPC_DECODER_NOT_FOUND, self |-> self,
             reader |-> r.reader, writer |-> writer]
     ELSE IF r.len # 1 \/ r.res = SLIPC_IO_READER_ERROR
       THEN [res |-> SLIPC_DECODER_IO_ERROR, self |-> self,
             reader |-> r.reader, writer |-> writer]
     ELSE LET d == slipc_decode_byte(self, writer, r.data[1])
          IN IF r.res # SLIPC_IO_READER_MORE
               THEN [res |-> SLIPC_DECODER_MORE, self |-> d.self,
                     reader |-> r.reader, writer |-> d.writer]
             ELSE IF d.res = SLIPC_DECODER_EOF
               THEN [res |-> SLIPC_DECODER_EOF, self |-> d.self,
                     reader |-> r.reader, writer |-> d.writer]
             ELSE IF d.res # SLIPC_DECODER_MORE
               THEN [res |-> SLIPC_DECODER_MORE, self |-> d.self,
                     reader |-> r.reader, writer |-> d.writer]
             ELSE DecoderLoop_EofBeforeEnd(d.self, r.reader, d.writer)

\* the while (1) loop of slipc_decoder_transfer: returns res, self, reader, writer
RECURSIVE DecoderLoop(_, _, _)
DecoderLoop(self, reader, writer) ==
  LET r == ReaderRead(reader, 1)
  IN IF r.len = 0 /\ r.res = SLIPC_IO_READER_EOF
       THEN [res |-> SLIPC_DECODER_NOT_FOUND, self |-> self,
             reader |-> r.reader, writer |-> writer]
     ELSE IF r.len # 1 \/ r.res = SLIPC_IO_READER_ERROR
       THEN [res |-> SLIPC_DECODER_IO_ERROR, self |-> self,
             reader |-> r.reader, writer |-> writer]
     ELSE LET d == slipc_decode_byte(self, writer, r.data[1])
          IN IF d.res = SLIPC_DECODER_EOF
               THEN [res |-> SLIPC_DECODER_EOF, self |-> d.self,
                     reader |-> r.reader, writer |-> d.writer]
             ELSE IF ~(d.res = SLIPC_DECODER_MORE /\ r.res = SLIPC_IO_READER_MORE)
               THEN [res |-> SLIPC_DECODER_MORE, self |-> d.self,
                     reader |-> r.reader, writer |-> d.writer]
             ELSE DecoderLoop(d.self, r.reader, d.writer)

\* a variant that scans for the start byte only between packets
slipc_decoder_transfer_ScanBetweenPackets(self, reader, writer) ==
  IF self.startbyte /\ self.prev = SLIPC_END
    THEN LET s == slipc_skip_to_start(reader)
         IN IF s.res # SLIPC_DECODER_MORE
              THEN [res |-> SLIPC_DECODER_NOT_FOUND, self |-> self,
                    reader |-> s.reader, writer |-> writer]
              ELSE DecoderLoop(self, s.reader, writer)
    ELSE DecoderLoop(self, reader, writer)

\* a variant that reports a missing start byte as an incomplete packet
slipc_decoder_transfer_NotFoundIsMore(self, reader, writer) ==
  IF self.startbyte
    THEN LET s == slipc_skip_to_start(reader)
         IN IF s.res # SLIPC_DECODER_MORE
              THEN [res |-> SLIPC_DECODER_MORE, self |-> self,
                    reader |-> s.reader, writer |-> writer]
              ELSE DecoderLoop(self, s.reader, writer)
    ELSE DecoderLoop(self, reader, writer)

\* a variant that never scans for the start byte
slipc_decoder_transfer_NoScan(self, reader, writer) ==
  DecoderLoop(self, reader, writer)

\* returns res, self, reader, writer
slipc_decoder_transfer(self, reader, writer) ==
  IF self.startbyte
    THEN LET s == slipc_skip_to_start(reader)
         IN IF s.res # SLIPC_DECODER_MORE
              THEN [res |-> SLIPC_DECODER_NOT_FOUND, self |-> self,
                    reader |-> s.reader, writer |-> writer]
              ELSE DecoderLoop(self, s.reader, writer)
    ELSE DecoderLoop(self, reader, writer)

\* a variant that starts every call from the state of a new decoder
slipc_decoder_decode_packet_ResetsPrev(self, writer, buf, len) ==
  slipc_decoder_transfer([self EXCEPT !.prev = SLIPC_END],
                         slipc_io_array_reader_create(buf, len), writer)

\* returns res, self, reader, writer
slipc_decoder_decode_packet(self, writer, buf, len) ==
  slipc_decoder_transfer(self, slipc_io_array_reader_create(buf, len), writer)

(***************************************************************************)
(* The caller.                                                             *)
(***************************************************************************)
VARIABLES
  encoder,   \* slipc_encoder_t
  decoder,   \* slipc_decoder_t
  reader,    \* the caller's reader, as the latest call left it
  writer,    \* the caller's writer, as the latest call left it
  buf,       \* the caller's buffer, handed to the packet functions
  hist       \* the library calls made so far, oldest first: op, arg, res,
             \* and the objects before (pre) and after (post) the call

vars == <<encoder, decoder, reader, writer, buf, hist>>

Objects == [encoder |-> encoder, decoder |-> decoder, reader |-> reader,
            writer |-> writer]

Call(op, arg, res, post) ==
  [op |-> op, arg |-> arg, res |-> res, pre |-> Objects, post |-> post]

\* the inputs a caller can supply
Payloads == SeqsUpTo(Byte, MaxLen)

MockBytes == {SLIPC_END, SLIPC_ESC, 9}
ReadEvents ==
  {[len |-> 0, byte |-> 0, res |-> r] : r \in ReaderResult}
    \cup {[len |-> 1, byte |-> b, res |-> r] : b \in MockBytes, r \in ReaderResult}
MockReaders == {MockReader(sc) : sc \in SeqsUpTo(ReadEvents, MaxReadScript)}

AcceptAll == MockWriter(0, SLIPC_IO_WRITER_OK, 0)
WriteFailures ==
  {<<SLIPC_IO_WRITER_EOF, 0>>, <<SLIPC_IO_WRITER_EOF, 1>>,
   <<SLIPC_IO_WRITER_ERROR, 0>>, <<SLIPC_IO_WRITER_ERROR, 1>>,
   <<SLIPC_IO_WRITER_OK, 0>>}
MockWriters ==
  {AcceptAll} \cup
  {MockWriter(k, f[1], f[2]) : k \in 1..MaxFailAt, f \in WriteFailures}
ArrayWriters == {slipc_io_array_writer_create(c) : c \in 0..MaxFailAt}
Writers == MockWriters \cup ArrayWriters

\* a caller holding buffer b, reader r and writer w, with a new encoder and a
\* new decoder, that has not called the library yet
InitWith(b, r, w, encStart, decStart) ==
  /\ encoder = slipc_encoder_new(encStart)
  /\ decoder = slipc_decoder_new(decStart)
  /\ reader = r
  /\ writer = w
  /\ buf = b
  /\ hist = <<>>

Last == hist[Len(hist)]

(***************************************************************************)
(* One action per library function.                                        *)
(***************************************************************************)
EncodeByte(byte) ==
  LET e == slipc_encode_byte(writer, byte)
  IN /\ Len(hist) < MaxSteps
     /\ writer' = e.writer
     /\ hist' = Append(hist, Call("encode_byte", [byte |-> byte], e.res,
                                  [Objects EXCEPT !.writer = e.writer]))
     /\ UNCHANGED <<encoder, decoder, reader, buf>>

EncoderTransfer ==
  LET e == slipc_encoder_transfer(encoder, reader, writer)
  IN /\ Len(hist) < MaxCalls
     /\ reader' = e.reader
     /\ writer' = e.writer
     /\ hist' = Append(hist, Call("encoder_transfer", [startbyte |-> encoder.startbyte],
                                  e.res,
                                  [Objects EXCEPT !.reader = e.reader,
                                                  !.writer = e.writer]))
     /\ UNCHANGED <<encoder, decoder, buf>>

\* the reader slipc_encode_packet creates lives only during the call
EncodePacket(startbyte) ==
  LET e == slipc_encode_packet(writer, buf, Len(buf), startbyte)
  IN /\ Len(hist) < MaxCalls
     /\ writer' = e.writer
     /\ hist' = Append(hist, Call("encode_packet",
                                  [buf |-> buf, startbyte |-> startbyte], e.res,
                                  [Objects EXCEPT !.writer = e.writer]))
     /\ UNCHANGED <<encoder, decoder, reader, buf>>

DecodeByte(byte) ==
  LET d == slipc_decode_byte(decoder, writer, byte)
  IN /\ Len(hist) < MaxSteps
     /\ decoder' = d.self
     /\ writer' = d.writer
     /\ hist' = Append(hist, Call("decode_byte", [byte |-> byte], d.res,
                                  [Objects EXCEPT !.decoder = d.self,
                                                  !.writer = d.writer]))
     /\ UNCHANGED <<encoder, reader, buf>>

DecoderTransfer ==
  LET d == slipc_decoder_transfer(decoder, reader, writer)
  IN /\ Len(hist) < MaxCalls
     /\ decoder' = d.self
     /\ reader' = d.reader
     /\ writer' = d.writer
     /\ hist' = Append(hist, Call("decoder_transfer", [startbyte |-> decoder.startbyte],
                                  d.res,
                                  [Objects EXCEPT !.decoder = d.self,
                                                  !.reader = d.reader,
                                                  !.writer = d.writer]))
     /\ UNCHANGED <<encoder, buf>>

\* the reader slipc_decoder_decode_packet creates lives only during the call
DecodePacket ==
  LET d == slipc_decoder_decode_packet(decoder, writer, buf, Len(buf))
  IN /\ Len(hist) < MaxCalls
     /\ decoder' = d.self
     /\ writer' = d.writer
     /\ hist' = Append(hist, Call("decode_packet", [buf |-> buf], d.res,
                                  [Objects EXCEPT !.decoder = d.self,
                                                  !.writer = d.writer]))
     /\ UNCHANGED <<encoder, reader, buf>>

\* slipc_decoder_decode_packet on the bytes the preceding slipc_encode_packet
\* wrote, with a new writer that accepts every write
DecodeEncoded ==
  /\ hist # <<>>
  /\ Last.op = "encode_packet"
  /\ LET wire == writer.stored
         d == slipc_decoder_decode_packet(decoder, AcceptAll, wire, Len(wire))
     IN /\ decoder' = d.self
        /\ writer' = d.writer
        /\ buf' = wire
        /\ hist' = Append(hist,
                          [op |-> "decode_packet", arg |-> [buf |-> wire], res |-> d.res,
                           pre |-> [Objects EXCEPT !.writer = AcceptAll],
                           post |-> [Objects EXCEPT !.decoder = d.self,
                                                    !.writer = d.writer]])
        /\ UNCHANGED <<encoder, reader>>

(***************************************************************************)
(* Specifications.                                                         *)
(***************************************************************************)
NoReader == MockReader(<<>>)

\* the encoder: one call, on any payload, reader and writer
InitEnc ==
  \E b \in Payloads, w \in Writers, s \in BOOLEAN :
    \E r \in (IF b = <<>> THEN MockReaders
                          ELSE {slipc_io_array_reader_create(b, Len(b))}) :
      InitWith(b, r, w, s, FALSE)

NextEnc ==
  \/ hist = <<>> /\ EncoderTransfer
  \/ hist = <<>> /\ EncodePacket(encoder.startbyte)
  \/ hist = <<>> /\ reader = NoReader /\ \E b \in Byte : EncodeByte(b)

SpecEnc == InitEnc /\ [][NextEnc]_vars

\* the encoder, byte by byte
InitEncByte ==
  \E w \in Writers : InitWith(<<>>, NoReader, w, FALSE, FALSE)

NextEncByte == \E b \in Byte : EncodeByte(b)

SpecEncByte == InitEncByte /\ [][NextEncByte]_vars

\* the link: a payload is encoded and the bytes written are decoded
InitLink ==
  \E b \in Payloads, es \in BOOLEAN, ds \in BOOLEAN :
    InitWith(b, NoReader, AcceptAll, es, ds)

NextLink ==
  \/ hist = <<>> /\ EncodePacket(encoder.startbyte)
  \/ DecodeEncoded

SpecLink == InitLink /\ [][NextLink]_vars

\* the decoder: transfers from any reader into any writer
InitDec ==
  \E b \in Payloads, w \in Writers, s \in BOOLEAN :
    \E r \in (IF b = <<>> THEN MockReaders
                          ELSE {slipc_io_array_reader_create(b, Len(b))}) :
      InitWith(b, r, w, FALSE, s)

NextDec ==
  \/ DecoderTransfer
  \/ hist = <<>> /\ DecodePacket

SpecDec == InitDec /\ [][NextDec]_vars

\* the decoder, byte by byte
InitByte ==
  \E w \in Writers, s \in BOOLEAN : InitWith(<<>>, NoReader, w, FALSE, s)

NextByte == \E b \in Byte : DecodeByte(b)

SpecByte == InitByte /\ [][NextByte]_vars

\* the decoder with start byte on a noisy line: noise without END, a framed
\* packet, trailing bytes
NoiseBytes == {SLIPC_ESC, 9}
TrailBytes == {SLIPC_END, 9}

InitNoise ==
  \E N \in SeqsUpTo(NoiseBytes, MaxNoise), S \in SeqsUpTo(Byte, MaxNoise),
     T \in SeqsUpTo(TrailBytes, MaxNoise) :
    LET W == N \o <<SLIPC_END>> \o Stuff(S) \o <<SLIPC_END>> \o T
    IN InitWith(W, slipc_io_array_reader_create(W, Len(W)), AcceptAll, FALSE, TRUE)

NextNoise == DecoderTransfer

SpecNoise == InitNoise /\ [][NextNoise]_vars

(***************************************************************************)
(* Vocabulary of the properties.                                           *)
(***************************************************************************)
\* every write made on the writer between pre and post reported OK and took
\* the whole byte
Accepted(pre, post) ==
  IF pre.kind = "array"
    THEN post.len > 0
    ELSE \/ pre.failAt = 0
         \/ pre.failAt <= Len(pre.calls)
         \/ pre.failAt > Len(post.calls)

\* the bytes stored in, and the writes attempted on, the writer by call c
StoredBy(c) ==
  SubSeq(c.post.writer.stored, Len(c.pre.writer.stored) + 1, Len(c.post.writer.stored))
WritesOf(c) ==
  SubSeq(c.post.writer.calls, Len(c.pre.writer.calls) + 1, Len(c.post.writer.calls))

\* the reader events call c consumed; an array reader's reads are events too
ArrayEvents(r) ==
  [i \in 1..r.len |->
     [len |-> 1, byte |-> r.buf[r.pos + i],
      res |-> IF i = r.len THEN SLIPC_IO_READER_EOF ELSE SLIPC_IO_READER_MORE]]
EventsOf(r) == IF r.kind = "array" THEN ArrayEvents(r) ELSE r.script
ReadsOf(c) ==
  LET ev == EventsOf(c.pre.reader)
      n == c.post.reader.nreads - c.pre.reader.nreads
  IN [i \in 1..n |-> IF i <= Len(ev) THEN ev[i]
                     ELSE [len |-> 0, byte |-> 0, res |-> SLIPC_IO_READER_EOF]]

\* a reader that delivers its bytes one per read and reports Eof together
\* with the last one, and the bytes it delivers
EofWithLastByte(r) ==
  LET ev == EventsOf(r)
  IN /\ ev # <<>>
     /\ \A i \in 1..Len(ev) :
          /\ ev[i].len = 1
          /\ ev[i].res = (IF i = Len(ev) THEN SLIPC_IO_READER_EOF
                                         ELSE SLIPC_IO_READER_MORE)
BytesOf(ev) == [i \in 1..Len(ev) |-> ev[i].byte]

(***************************************************************************)
(* C1  Round trip: a payload encoded by slipc_encode_packet without start  *)
(* byte into a writer that accepts every write, and decoded from the bytes *)
(* written by slipc_decoder_decode_packet with a new decoder without start *)
(* byte, arrives in the decoder's writer unchanged.                        *)
(***************************************************************************)
RoundTripCase ==
  /\ Len(hist) = 2
  /\ hist[1].op = "encode_packet" /\ hist[1].arg.startbyte = FALSE
  /\ hist[2].op = "decode_packet"
  /\ hist[2].pre.decoder = slipc_decoder_new(FALSE)
  /\ hist[2].arg.buf = hist[1].post.writer.stored

C1_RoundTrip ==
  RoundTripCase => hist[2].post.writer.stored = hist[1].arg.buf

C1_Witness ==
  /\ RoundTripCase
  /\ hist[1].arg.buf = <<SLIPC_ESC, SLIPC_END, SLIPC_ESC_END>>
  /\ hist[1].post.writer.stored =
       <<SLIPC_ESC, SLIPC_ESC_ESC, SLIPC_ESC, SLIPC_ESC_END, SLIPC_ESC_END, SLIPC_END>>
  /\ writer.stored = <<SLIPC_ESC, SLIPC_END, SLIPC_ESC_END>>

(***************************************************************************)
(* C2  Single-byte stuffing: on a writer that accepts every write,         *)
(* slipc_encode_byte writes ESC ESC_END for END, ESC ESC_ESC for ESC and   *)
(* the byte itself for any other byte, and returns SLIPC_ENCODER_OK.       *)
(***************************************************************************)
C2_SingleByteStuffing ==
  \A i \in 1..Len(hist) :
    LET c == hist[i]
    IN (c.op = "encode_byte" /\ Accepted(c.pre.writer, c.post.writer)) =>
         /\ c.res = SLIPC_ENCODER_OK
         /\ WritesOf(c) = (IF c.arg.byte = 192 THEN <<219, 220>>
                           ELSE IF c.arg.byte = 219 THEN <<219, 221>>
                           ELSE <<c.arg.byte>>)
         /\ StoredBy(c) = WritesOf(c)

C2_Witness ==
  /\ Len(hist) = 3
  /\ \A i \in 1..3 : hist[i].op = "encode_byte" /\ hist[i].res = SLIPC_ENCODER_OK
  /\ hist[1].arg.byte = SLIPC_END
  /\ hist[2].arg.byte = SLIPC_ESC
  /\ hist[3].arg.byte = SLIPC_ESC_END
  /\ writer.stored = <<SLIPC_ESC, SLIPC_ESC_END, SLIPC_ESC, SLIPC_ESC_ESC, SLIPC_ESC_END>>

(***************************************************************************)
(* C3  Packet framing: for a non-empty payload and either start flag,      *)
(* slipc_encode_packet, and slipc_encoder_transfer from a reader that      *)
(* reports Eof together with the last byte, on a writer that accepts every *)
(* write return SLIPC_ENCODER_OK and write one END iff the flag is set,    *)
(* the stuffed payload bytes in order, one END, and nothing else.          *)
(***************************************************************************)
FramingCase(c) ==
  /\ Accepted(c.pre.writer, c.post.writer)
  /\ \/ c.op = "encode_packet" /\ c.arg.buf # <<>>
     \/ c.op = "encoder_transfer" /\ EofWithLastByte(c.pre.reader)

FramingPayload(c) ==
  IF c.op = "encode_packet" THEN c.arg.buf ELSE BytesOf(EventsOf(c.pre.reader))

RECURSIVE FirstEnd(_, _)
FirstEnd(W, i) ==
  IF i > Len(W) THEN 0 ELSE IF W[i] = 192 THEN i ELSE FirstEnd(W, i + 1)

\* the payload whose stuffed form is the wire bytes B (B holds no END)
RECURSIVE Unstuffed(_)
Unstuffed(B) ==
  IF B = <<>> THEN <<>>
  ELSE IF Len(B) >= 2 /\ B[1] = 219 /\ B[2] = 220 THEN <<192>> \o Unstuffed(SubSeq(B, 3, Len(B)))
  ELSE IF Len(B) >= 2 /\ B[1] = 219 /\ B[2] = 221 THEN <<219>> \o Unstuffed(SubSeq(B, 3, Len(B)))
  ELSE <<B[1]>> \o Unstuffed(Tail(B))

\* W = N ++ END ++ stuffed(S) ++ END ++ T: its first two ENDs and its S
NoisyParts(W) ==
  LET i == FirstEnd(W, 1)
      j == IF i = 0 THEN 0 ELSE FirstEnd(W, i + 1)
      B == IF j = 0 THEN <<>> ELSE SubSeq(W, i + 1, j - 1)
  IN [framed |-> j # 0 /\ Stuff(Unstuffed(B)) = B,
      N |-> IF i = 0 THEN W ELSE SubSeq(W, 1, i - 1),
      S |-> Unstuffed(B),
      T |-> IF j = 0 THEN <<>> ELSE SubSeq(W, j + 1, Len(W))]

NoiseCase ==
  /\ Len(hist) >= 1
  /\ hist[1].op = "decoder_transfer"
  /\ hist[1].pre.decoder = slipc_decoder_new(TRUE)
  /\ hist[1].pre.reader = slipc_io_array_reader_create(buf, Len(buf))
  /\ hist[1].pre.writer = AcceptAll
  /\ NoisyParts(buf).framed

C4_NoiseTolerance ==
  NoiseCase =>
    /\ hist[1].res = SLIPC_DECODER_EOF
    /\ hist[1].post.writer.stored = NoisyParts(buf).S
    /\ hist[1].post.writer.calls = NoisyParts(buf).S
    /\ hist[1].post.reader.len = Len(NoisyParts(buf).T)

C4_Witness ==
  /\ NoiseCase
  /\ Len(hist) = 1
  /\ buf = <<9, SLIPC_ESC, SLIPC_END, SLIPC_ESC, SLIPC_ESC_END, 9, SLIPC_END, 9, SLIPC_END>>
  /\ NoisyParts(buf).N = <<9, SLIPC_ESC>>
  /\ NoisyParts(buf).T = <<9, SLIPC_END>>
  /\ writer.stored = <<SLIPC_END, 9>>
  /\ hist[1].res = SLIPC_DECODER_EOF

(***************************************************************************)
(* C5  Malformed tolerance: an ESC followed by a byte x that is none of    *)
(* ESC_END, ESC_ESC, ESC, END decodes to x alone, without a failure, and   *)
(* sets the malformed flag.                                                *)
(***************************************************************************)
\* calls i and i+1 are slipc_decode_byte of ESC and of a byte x that is none
\* of ESC_END, ESC_ESC, ESC, END, and the writer accepts every write
BadEscape(i) ==
  /\ hist[i].op = "decode_byte" /\ hist[i].arg.byte = 219
  /\ hist[i + 1].op = "decode_byte"
  /\ hist[i + 1].arg.byte \notin {220, 221, 219, 192}
  /\ Accepted(hist[i].pre.writer, hist[i + 1].post.writer)

\* the two calls store exactly x, both return MORE, and the flag is set
PassedThrough(i) ==
  /\ StoredBy(hist[i]) \o StoredBy(hist[i + 1]) = <<hist[i + 1].arg.byte>>
  /\ hist[i].res = SLIPC_DECODER_MORE
  /\ hist[i + 1].res = SLIPC_DECODER_MORE
  /\ slipc_decoder_is_malformed(hist[i + 1].post.decoder)

SinkFailed(c) ==
  IF c.pre.writer.kind = "array"
    THEN WritesOf(c) # <<>> /\ c.post.writer.len = 0
    ELSE /\ c.pre.writer.failRes # SLIPC_IO_WRITER_OK
         /\ c.pre.writer.failAt > Len(c.pre.writer.calls)
         /\ c.pre.writer.failAt <= Len(c.post.writer.calls)

C6_SinkFailureIsIoError ==
  \A i \in 1..Len(hist) :
    (hist[i].op \in {"decoder_transfer", "decode_packet"} /\ SinkFailed(hist[i]))
      => hist[i].res = SLIPC_DECODER_IO_ERROR

(***************************************************************************)
(* C7  A source failure during decoding is an I/O failure of the transfer: *)
(* when a read made by slipc_decoder_transfer reports Error, during the    *)
(* scan for the start byte or during decoding, the call returns            *)
(* SLIPC_DECODER_IO_ERROR.                                                 *)
(***************************************************************************)
\* a read made by call c reported Error
SourceFailed(c) ==
  \E k \in 1..Len(ReadsOf(c)) : ReadsOf(c)[k].res = SLIPC_IO_READER_ERROR

C7_SourceFailureIsIoError ==
  \A i \in 1..Len(hist) :
    (hist[i].op = "decoder_transfer" /\ SourceFailed(hist[i]))
      => hist[i].res = SLIPC_DECODER_IO_ERROR

(***************************************************************************)
(* C8  An encoder failure aborts without further output: in                *)
(* slipc_encode_byte, slipc_encode_packet and slipc_encoder_transfer the   *)
(* first write that does not report OK, or the first read that reports     *)
(* Error, makes the call return SLIPC_ENCODER_IO_ERROR, and no write is    *)
(* attempted after it.                                                     *)
(***************************************************************************)
\* the number of writes call c makes up to and including the first one that
\* does not report OK
WritesUntilFailure(c) ==
  IF c.pre.writer.kind = "array"
    THEN (IF c.pre.writer.len = 0 THEN 1 ELSE c.pre.writer.len)
    ELSE c.pre.writer.failAt - Len(c.pre.writer.calls)

C8_EncoderAborts ==
  \A i \in 1..Len(hist) :
    LET c == hist[i]
        rd == ReadsOf(c)
    IN /\ (c.op \in {"encode_byte", "encode_packet", "encoder_transfer"} /\ SinkFailed(c))
            => /\ c.res = SLIPC_ENCODER_IO_ERROR
               /\ Len(WritesOf(c)) = WritesUntilFailure(c)
       /\ (c.op = "encoder_transfer" /\ SourceFailed(c))
            => /\ c.res = SLIPC_ENCODER_IO_ERROR
               /\ WritesOf(c) = (IF c.arg.startbyte THEN <<192>> ELSE <<>>)
                                  \o Stuff(BytesOf(SubSeq(rd, 1, Len(rd) - 1)))

C8_Witness ==
  /\ Len(hist) = 1
  /\ hist[1].op = "encode_packet"
  /\ hist[1].arg.buf = <<9, SLIPC_END, 9>>
  /\ hist[1].arg.startbyte
  /\ hist[1].pre.writer = MockWriter(3, SLIPC_IO_WRITER_ERROR, 0)
  /\ SinkFailed(hist[1])
  /\ hist[1].res = SLIPC_ENCODER_IO_ERROR
  /\ writer.calls = <<SLIPC_END, 9, SLIPC_ESC>>
  /\ writer.stored = <<SLIPC_END, 9>>

(***************************************************************************)
(* C9  Incomplete packet: when the source is exhausted after               *)
(* slipc_decoder_transfer consumed at least one byte of the current packet *)
(* and no terminating END, the call returns SLIPC_DECODER_MORE, both when  *)
(* the source reports Eof together with its last byte and when it reports  *)
(* Eof by a later read of zero bytes.  (Stated for calls whose writes the  *)
(* writer accepts, so that no sink failure is involved.)                   *)
(***************************************************************************)
\* the reads of call c deliver bytes one per read with More and end in Eof,
\* either together with the last byte or by a read of zero bytes
Exhausted(c) ==
  LET rd == ReadsOf(c)
  IN /\ rd # <<>>
     /\ rd[Len(rd)].res = SLIPC_IO_READER_EOF
     /\ rd[Len(rd)].len \in {0, 1}
     /\ \A k \in 1..(Len(rd) - 1) :
          rd[k].len = 1 /\ rd[k].res = SLIPC_IO_READER_MORE

\* the bytes the reads of call c delivered
Delivered(c) ==
  LET rd == ReadsOf(c)
  IN BytesOf(IF rd # <<>> /\ rd[Len(rd)].len = 0 THEN SubSeq(rd, 1, Len(rd) - 1)
                                                 ELSE rd)

\* the bytes of the current packet among them: with start byte, those after
\* the first END
PacketBytes(c) ==
  LET D == Delivered(c)
      i == FirstEnd(D, 1)
  IN IF ~c.pre.decoder.startbyte THEN D
     ELSE IF i = 0 THEN <<>> ELSE SubSeq(D, i + 1, Len(D))

C9_IncompleteIsMore ==
  \A i \in 1..Len(hist) :
    LET c == hist[i]
    IN (/\ c.op = "decoder_transfer"
        /\ Exhausted(c)
        /\ Accepted(c.pre.writer, c.post.writer)
        /\ PacketBytes(c) # <<>>
        /\ FirstEnd(PacketBytes(c), 1) = 0)
         => c.res = SLIPC_DECODER_MORE

(***************************************************************************)
(* C10  With start byte, slipc_decoder_transfer returns                    *)
(* SLIPC_DECODER_NOT_FOUND only if no END was read: once the scan has      *)
(* read an END, the exhaustion of the source is not reported as            *)
(* SLIPC_DECODER_NOT_FOUND.  (Stated for calls none of whose reads         *)
(* reports Error, so that no source failure is involved.)                  *)
(***************************************************************************)
C10_NotFoundMeansNoEnd ==
  \A i \in 1..Len(hist) :
    LET c == hist[i]
    IN (/\ c.op = "decoder_transfer"
        /\ c.pre.decoder.startbyte
        /\ ~SourceFailed(c)
        /\ c.res = SLIPC_DECODER_NOT_FOUND)
         => FirstEnd(Delivered(c), 1) = 0

(***************************************************************************)
(* A caller that hands a buffer to slipc_decoder_decode_packet in chunks.  *)
(***************************************************************************)
\* slipc_decoder_decode_packet on the first k bytes the caller still holds;
\* the caller keeps the bytes after them for its next call
DecodeChunk(k) ==
  LET chunk == SubSeq(buf, 1, k)
      d == slipc_decoder_decode_packet(decoder, writer, chunk, k)
  IN /\ Len(hist) < MaxCalls
     /\ decoder' = d.self
     /\ writer' = d.writer
     /\ buf' = SubSeq(buf, k + 1, Len(buf))
     /\ hist' = Append(hist, Call("decode_packet", [buf |-> chunk], d.res,
                                  [Objects EXCEPT !.decoder = d.self,
                                                  !.writer = d.writer]))
     /\ UNCHANGED <<encoder, reader>>

InitChunk ==
  \E b \in Payloads, s \in BOOLEAN : InitWith(b, NoReader, AcceptAll, s, s)

NextChunk == \E k \in 0..Len(buf) : DecodeChunk(k)

SpecChunk == InitChunk /\ [][NextChunk]_vars

(***************************************************************************)
(* C11  Chunk-boundary safety.  One decoder with startbyte = false, a sink *)
(* that accepts every write, and a wire W = W1 \o W2 where W1 is not empty *)
(* and holds no END: slipc_decoder_decode_packet on W1 returns MORE, and   *)
(* the call on W2 that follows leaves in the sink the bytes, and ends with *)
(* the result and the malformed flag, of one call on W by a new decoder.   *)
(* As claimed, W2 may be empty; the theorem needs W2 to hold a byte.       *)
(***************************************************************************)
ChunkCase ==
  /\ Len(hist) = 2
  /\ hist[1].pre.decoder = slipc_decoder_new(FALSE)
  /\ hist[1].arg.buf # <<>>
  /\ \A i \in 1..Len(hist[1].arg.buf) : hist[1].arg.buf[i] # SLIPC_END

\* what the two calls did, against what one call on the whole wire does
ChunkedAsWhole ==
  LET W == hist[1].arg.buf \o hist[2].arg.buf
      one == slipc_decoder_decode_packet(hist[1].pre.decoder,
                                         hist[1].pre.writer, W, Len(W))
  IN /\ hist[1].res = SLIPC_DECODER_MORE
     /\ hist[2].post.writer.stored = one.writer.stored
     /\ hist[2].res = one.res
     /\ hist[2].post.decoder.malformed = one.self.malformed

C11_AsClaimed == ChunkCase => ChunkedAsWhole

C11_ChunkBoundary == (ChunkCase /\ hist[2].arg.buf # <<>>) => ChunkedAsWhole

\* the wire ESC, ESC_END, END split between the ESC and the ESC_END
C11_Witness ==
  /\ ChunkCase
  /\ hist[1].arg.buf = <<SLIPC_ESC>>
  /\ hist[2].arg.buf = <<SLIPC_ESC_END, SLIPC_END>>
  /\ hist[2].res = SLIPC_DECODER_EOF
  /\ hist[2].post.writer.stored = <<SLIPC_END>>

(***************************************************************************)
(* C12  End of stream in the encoder.  Whenever the source reports Eof to  *)
(* slipc_encoder_transfer, with its last byte or by a read of zero bytes,  *)
(* at the first read (empty payload, as slipc_encode_packet with len 0) or *)
(* after bytes delivered with More, and the sink accepts every write, the  *)
(* encoder writes the terminating END last and returns OK.                 *)
(***************************************************************************)
\* the reads of call c end with the first Eof; the ones before it delivered
\* one byte each with More
SourceEnded(c) ==
  LET rd == ReadsOf(c)
      n == Len(rd)
  IN /\ n >= 1
     /\ rd[n].res = SLIPC_IO_READER_EOF
     /\ \A i \in 1..(n - 1) : rd[i].len = 1 /\ rd[i].res = SLIPC_IO_READER_MORE

EncoderEofCase(c) ==
  /\ Accepted(c.pre.writer, c.post.writer)
  /\ \/ c.op = "encoder_transfer" /\ SourceEnded(c)
     \/ c.op = "encode_packet"

C12_EofEndsPacket ==
  \A i \in 1..Len(hist) :
    EncoderEofCase(hist[i]) =>
      /\ hist[i].res = SLIPC_ENCODER_OK
      /\ WritesOf(hist[i]) # <<>>
      /\ WritesOf(hist[i])[Len(WritesOf(hist[i]))] = SLIPC_END

(***************************************************************************)
(* C13  Empty packet.  slipc_decoder_transfer with a new decoder returns   *)
(* EOF and writes no byte on a wire that starts with END when startbyte is *)
(* false, and on a wire END, END, after any noise without END, when        *)
(* startbyte is true; the bytes after the packet do not matter.            *)
(***************************************************************************)
EmptyPacketCase ==
  /\ Len(hist) >= 1
  /\ hist[1].op = "decoder_transfer"
  /\ hist[1].pre.decoder = slipc_decoder_new(hist[1].arg.startbyte)
  /\ hist[1].pre.reader = slipc_io_array_reader_create(buf, Len(buf))
  /\ LET i == FirstEnd(buf, 1)
     IN IF hist[1].arg.startbyte
          THEN i # 0 /\ i < Len(buf) /\ buf[i + 1] = SLIPC_END
          ELSE i = 1

C13_EmptyPacket ==
  EmptyPacketCase =>
    /\ hist[1].res = SLIPC_DECODER_EOF
    /\ WritesOf(hist[1]) = <<>>
    /\ hist[1].post.writer = hist[1].pre.writer

\* noise 9, then the empty packet END, END, decoded with start byte
C13_Witness ==
  /\ EmptyPacketCase
  /\ hist[1].arg.startbyte
  /\ buf = <<9, SLIPC_END, SLIPC_END>>
  /\ hist[1].res = SLIPC_DECODER_EOF
  /\ hist[1].post.reader.len = 0

(***************************************************************************)
(* C14  No delimiter present.  slipc_decoder_transfer returns NOT_FOUND    *)
(* and writes no byte on a source that holds no bytes, with either         *)
(* start-byte policy, and, when startbyte is true, on any source that      *)
(* delivers no END byte (and reports no Error).                            *)
(***************************************************************************)
HoldsNoBytes(r) ==
  \A i \in 1..Len(EventsOf(r)) :
    EventsOf(r)[i].len = 0 /\ EventsOf(r)[i].res = SLIPC_IO_READER_EOF

HoldsNoEnd(r) ==
  \A i \in 1..Len(EventsOf(r)) :
    /\ EventsOf(r)[i].res # SLIPC_IO_READER_ERROR
    /\ EventsOf(r)[i].len = 1 => EventsOf(r)[i].byte # SLIPC_END

\* the reader the call reads from: slipc_decoder_decode_packet makes its own
SourceOf(c) ==
  IF c.op = "decode_packet"
    THEN slipc_io_array_reader_create(c.arg.buf, Len(c.arg.buf))
    ELSE c.pre.reader

NoDelimiterCase(c) ==
  /\ c.op \in {"decoder_transfer", "decode_packet"}
  /\ \/ HoldsNoBytes(SourceOf(c))
     \/ c.pre.decoder.startbyte /\ HoldsNoEnd(SourceOf(c))

C14_NoDelimiter ==
  \A i \in 1..Len(hist) :
    NoDelimiterCase(hist[i]) =>
      /\ hist[i].res = SLIPC_DECODER_NOT_FOUND
      /\ WritesOf(hist[i]) = <<>>

\* three bytes without END, scanned to the end by a decoder with start byte
C14_Witness ==
  /\ Len(hist) = 1
  /\ NoDelimiterCase(hist[1])
  /\ hist[1].op = "decoder_transfer"
  /\ hist[1].pre.decoder.startbyte
  /\ hist[1].pre.reader = slipc_io_array_reader_create(<<9, SLIPC_ESC, 9>>, 3)
  /\ hist[1].post.reader.len = 0
  /\ hist[1].res = SLIPC_DECODER_NOT_FOUND

(***************************************************************************)
(* A caller that keeps one decoder over several packets: it feeds single   *)
(* bytes, transfers from its reader, hands over whole buffers, and         *)
(* re-initialises the decoder.                                             *)
(***************************************************************************)
SessionWires ==
  {<<9, SLIPC_END>>, <<SLIPC_ESC, 9, SLIPC_END>>, <<SLIPC_ESC>>,
   <<SLIPC_END, SLIPC_ESC, SLIPC_ESC_END, SLIPC_END>>}

\* slipc_decoder_decode_packet on a buffer the caller has just received
DecodeNext(W) ==
  LET d == slipc_decoder_decode_packet(decoder, writer, W, Len(W))
  IN /\ Len(hist) < MaxSteps
     /\ decoder' = d.self
     /\ writer' = d.writer
     /\ buf' = W
     /\ hist' = Append(hist, Call("decode_packet", [buf |-> W], d.res,
                                  [Objects EXCEPT !.decoder = d.self,
                                                  !.writer = d.writer]))
     /\ UNCHANGED <<encoder, reader>>

DecoderInit(startbyte) ==
  /\ Len(hist) < MaxSteps
  /\ decoder' = slipc_decoder_init(decoder, startbyte)
  /\ hist' = Append(hist, Call("decoder_init", [startbyte |-> startbyte], "void",
                               [Objects EXCEPT !.decoder = decoder']))
  /\ UNCHANGED <<encoder, reader, writer, buf>>

InitSession ==
  \E b \in SessionWires, s \in BOOLEAN :
    InitWith(b, slipc_io_array_reader_create(b, Len(b)), AcceptAll, s, s)

NextSession ==
  \/ \E b \in Byte : DecodeByte(b)
  \/ DecoderTransfer
  \/ \E W \in SessionWires : DecodeNext(W)
  \/ \E s \in BOOLEAN : DecoderInit(s)

SpecSession == InitSession /\ [][NextSession]_vars

InitXfer ==
  \E b \in Payloads, w \in {AcceptAll} \cup ArrayWriters, s \in BOOLEAN :
    InitWith(b, slipc_io_array_reader_create(b, Len(b)), w, s, s)

NextXfer == DecoderTransfer \/ EncoderTransfer

SpecXfer == InitXfer /\ [][NextXfer]_vars

(***************************************************************************)
(* C16  Termination.  On an in-memory source, whatever its bytes,          *)
(* slipc_decoder_transfer (with its start scan) and slipc_encoder_transfer *)
(* return after a bounded number of loop iterations.  Each iteration makes *)
(* one read; every read but the last of a call consumes exactly one source *)
(* byte, and the last one consumes one byte or none.  So a call makes at   *)
(* most one read per byte the source holds, one more when the start scan   *)
(* runs into the end of the source, and one read on an empty source.       *)
(***************************************************************************)
IterationsOf(c) == c.post.reader.nreads - c.pre.reader.nreads
ConsumedBy(c) == c.pre.reader.len - c.post.reader.len

IterationBound(c) ==
  IF c.op = "decoder_transfer" /\ c.pre.decoder.startbyte
    THEN c.pre.reader.len + 1
    ELSE IF c.pre.reader.len = 0 THEN 1 ELSE c.pre.reader.len

C16_Termination ==
  \A i \in 1..Len(hist) :
    (hist[i].op \in {"decoder_transfer", "encoder_transfer"}
       /\ hist[i].pre.reader.kind = "array") =>
      /\ hist[i].res \in DecoderResult \cup EncoderResult
      /\ IterationsOf(hist[i]) <= IterationBound(hist[i])
      /\ ConsumedBy(hist[i]) \in {IterationsOf(hist[i]), IterationsOf(hist[i]) - 1}
      /\ ConsumedBy(hist[i]) >= 0

\* a source of repeated ESC without END: the scan of a decoder with start
\* byte reads it to the end, and the encoder reads it to the end
C16_Witness ==
  /\ Len(hist) = 2
  /\ buf = <<SLIPC_ESC, SLIPC_ESC, SLIPC_ESC>>
  /\ hist[1].op = "decoder_transfer"
  /\ hist[1].pre.decoder.startbyte
  /\ IterationsOf(hist[1]) = 4
  /\ ConsumedBy(hist[1]) = 3
  /\ hist[2].op = "encoder_transfer"
  /\ IterationsOf(hist[2]) = 1
  /\ ConsumedBy(hist[2]) = 0

(***************************************************************************)
(* A caller that decodes a wire from its reader and encodes the decoded    *)
(* bytes again, with the same start-byte policy.                           *)
(***************************************************************************)
\* slipc_encode_packet on the bytes the preceding slipc_decoder_transfer
\* stored, with the decoder's start-byte policy and a new writer that
\* accepts every write
EncodeDecoded ==
  /\ hist # <<>>
  /\ Last.op = "decoder_transfer"
  /\ LET D == writer.stored
         e == slipc_encode_packet(AcceptAll, D, Len(D), decoder.startbyte)
     IN /\ writer' = e.writer
        /\ buf' = D
        /\ hist' = Append(hist,
                          [op |-> "encode_packet",
                           arg |-> [buf |-> D, startbyte |-> decoder.startbyte],
                           res |-> e.res,
                           pre |-> [Objects EXCEPT !.writer = AcceptAll],
                           post |-> [Objects EXCEPT !.writer = e.writer]])
        /\ UNCHANGED <<encoder, decoder, reader>>

InitRe ==
  \E b \in Payloads, s \in BOOLEAN :
    InitWith(b, slipc_io_array_reader_create(b, Len(b)), AcceptAll, s, s)

NextRe ==
  \/ hist = <<>> /\ DecoderTransfer
  \/ EncodeDecoded

SpecRe == InitRe /\ [][NextRe]_vars

(***************************************************************************)
(* C17  Re-encoding.  A wire W that a new decoder consumes completely and  *)
(* decodes with result EOF into D: slipc_encode_packet of D with the same  *)
(* start-byte policy writes exactly W.  As claimed, this holds for every   *)
(* such W; the theorem needs W to be the frame of a payload that is not    *)
(* empty: an END first exactly when the policy asks for one, then at least *)
(* one byte, every ESC followed by ESC_END or ESC_ESC, and one END last.   *)
(***************************************************************************)
ReencodeCase ==
  /\ Len(hist) = 2
  /\ hist[1].op = "decoder_transfer"
  /\ hist[1].pre.decoder = slipc_decoder_new(hist[1].arg.startbyte)
  /\ hist[1].pre.reader.pos = 0
  /\ hist[1].res = SLIPC_DECODER_EOF
  /\ hist[1].post.reader.len = 0
  /\ hist[2].op = "encode_packet"
  /\ hist[2].arg.buf = hist[1].post.writer.stored
  /\ hist[2].arg.startbyte = hist[1].arg.startbyte

ReencodedWire == hist[1].pre.reader.buf

WellFramed(W, start) ==
  LET first == IF start THEN 2 ELSE 1
      B == SubSeq(W, first, Len(W) - 1)
  IN /\ Len(W) > first
     /\ W = Frame(Unstuffed(B), start)

ReusePayloads == SeqsUpTo({SLIPC_END, SLIPC_ESC, 9}, MaxReadScript)

\* slipc_encoder_transfer from a new array reader over payload P
EncodeNext(P) ==
  LET r == slipc_io_array_reader_create(P, Len(P))
      e == slipc_encoder_transfer(encoder, r, writer)
  IN /\ Len(hist) < MaxCalls
     /\ reader' = e.reader
     /\ writer' = e.writer
     /\ buf' = P
     /\ hist' = Append(hist,
                       [op |-> "encoder_transfer",
                        arg |-> [startbyte |-> encoder.startbyte],
                        res |-> e.res,
                        pre |-> [Objects EXCEPT !.reader = r],
                        post |-> [Objects EXCEPT !.reader = e.reader,
                                                 !.writer = e.writer]])
     /\ UNCHANGED <<encoder, decoder>>

InitReuse == \E s \in BOOLEAN : InitWith(<<>>, NoReader, AcceptAll, s, s)

NextReuse == \E P \in ReusePayloads : EncodeNext(P)

SpecReuse == InitReuse /\ [][NextReuse]_vars

(***************************************************************************)
(* C18  The encoder is immutable and reusable.  slipc_encoder_transfer     *)
(* leaves the encoder as it was, and two successive transfers with one     *)
(* encoder over payloads P1 and P2 each return OK and write the frame of   *)
(* P1 followed by the frame of P2.                                         *)
(***************************************************************************)
C18_EncoderReuse ==
  /\ \A i \in 1..Len(hist) : hist[i].post.encoder = hist[i].pre.encoder
  /\ Len(hist) = 2 =>
       /\ hist[1].res = SLIPC_ENCODER_OK
       /\ hist[2].res = SLIPC_ENCODER_OK
       /\ writer.stored =
            Frame(hist[1].pre.reader.buf, encoder.startbyte)
              \o Frame(hist[2].pre.reader.buf, encoder.startbyte)

(***************************************************************************)
(* C19  What the malformed-packet tests assert.  On a wire ended by its    *)
(* only END, in which some ESC is not followed by ESC_END or ESC_ESC, the  *)
(* decoded output keeps that ESC and the byte after it (8, ESC, 9 gives    *)
(* 8, ESC, 9), keeps an ESC that stands directly before the END, unstuffs  *)
(* the well-formed escapes, and the transfer returns EOF.                  *)
(***************************************************************************)
KeptEscapeCase ==
  /\ Len(hist) >= 1
  /\ hist[1].op = "decoder_transfer"
  /\ hist[1].pre.decoder = slipc_decoder_new(FALSE)
  /\ hist[1].pre.reader = slipc_io_array_reader_create(buf, Len(buf))
  /\ hist[1].pre.writer = AcceptAll
  /\ buf # <<>>
  /\ FirstEnd(buf, 1) = Len(buf)
  /\ Stuff(Unstuffed(SubSeq(buf, 1, Len(buf) - 1))) # SubSeq(buf, 1, Len(buf) - 1)

C19_TestsKeepEscape ==
  KeptEscapeCase =>
    /\ hist[1].res = SLIPC_DECODER_EOF
    /\ hist[1].post.writer.stored = Unstuffed(SubSeq(buf, 1, Len(buf) - 1))

(***************************************************************************)
(* C20  Every byte consumed in the ESCAPED state returns the decoder to    *)
(* NORMAL.  After slipc_decode_byte has consumed a byte while the wire     *)
(* byte before it was ESC, the next byte is not taken for the second half  *)
(* of an escape: an ESC_END or ESC_ESC that follows, as after the wire     *)
(* bytes ESC, ESC, is written unchanged as data.                           *)
(***************************************************************************)
AfterEscaped(i) ==
  /\ hist[i].op = "decode_byte"
  /\ hist[i + 1].op = "decode_byte"
  /\ hist[i].pre.decoder.prev = SLIPC_ESC
  /\ hist[i + 1].arg.byte \in {SLIPC_ESC_END, SLIPC_ESC_ESC}
  /\ Accepted(hist[i + 1].pre.writer, hist[i + 1].post.writer)

C20_EscapedReturnsToNormal ==
  \A i \in 1..(Len(hist) - 1) :
    AfterEscaped(i) =>
      /\ hist[i + 1].res = SLIPC_DECODER_MORE
      /\ StoredBy(hist[i + 1]) = <<hist[i + 1].arg.byte>>

(***************************************************************************)
(* C21  The malformed flag is set for every bad escape.  Whenever          *)
(* slipc_decode_byte consumes, directly after an ESC wire byte, a byte     *)
(* that is neither ESC_END nor ESC_ESC (END and ESC among them),           *)
(* slipc_decoder_is_malformed returns true afterwards.                     *)
(***************************************************************************)
BadEscapeStep(c) ==
  /\ c.op = "decode_byte"
  /\ c.pre.decoder.prev = SLIPC_ESC
  /\ c.arg.byte \notin {SLIPC_ESC_END, SLIPC_ESC_ESC}

C21_BadEscapeSetsFlag ==
  \A i \in 1..Len(hist) :
    BadEscapeStep(hist[i]) => slipc_decoder_is_malformed(hist[i].post.decoder)

(***************************************************************************)
(* C22  slipc_decode_byte follows the transition table on well-formed      *)
(* input.  In NORMAL state (the wire byte before is not ESC) END returns   *)
(* EOF and ESC returns MORE, both without a write, and any other byte,     *)
(* literal ESC_END and ESC_ESC included, is written unchanged; in ESCAPED  *)
(* state ESC_END is written as END and ESC_ESC as ESC.  A step that writes *)
(* makes that one write, and returns MORE and stores the byte when the     *)
(* sink accepts it.  None of these steps changes the malformed flag.       *)
(***************************************************************************)
\* what the table has the step write: one byte, or nothing
TableWrites(c) ==
  IF c.pre.decoder.prev = SLIPC_ESC
    THEN IF c.arg.byte = SLIPC_ESC_END THEN <<SLIPC_END>> ELSE <<SLIPC_ESC>>
    ELSE IF c.arg.byte \in {SLIPC_END, SLIPC_ESC} THEN <<>> ELSE <<c.arg.byte>>

WellFormedStep(c) ==
  /\ c.op = "decode_byte"
  /\ c.pre.decoder.prev = SLIPC_ESC => c.arg.byte \in {SLIPC_ESC_END, SLIPC_ESC_ESC}

C22_TransitionTable ==
  \A i \in 1..Len(hist) :
    WellFormedStep(hist[i]) =>
      /\ WritesOf(hist[i]) = TableWrites(hist[i])
      /\ hist[i].post.decoder.malformed = hist[i].pre.decoder.malformed
      /\ IF hist[i].arg.byte = SLIPC_END
           THEN hist[i].res = SLIPC_DECODER_EOF
           ELSE Accepted(hist[i].pre.writer, hist[i].post.writer) =>
                  /\ hist[i].res = SLIPC_DECODER_MORE
                  /\ StoredBy(hist[i]) = TableWrites(hist[i])

\* ESC, ESC_END decode to END; the literal ESC_ESC after them is data
C22_Witness ==
  /\ Len(hist) = 3
  /\ \A i \in 1..3 : WellFormedStep(hist[i])
  /\ hist[1].arg.byte = SLIPC_ESC
  /\ hist[2].arg.byte = SLIPC_ESC_END
  /\ hist[3].arg.byte = SLIPC_ESC_ESC
  /\ hist[1].pre.writer = AcceptAll
  /\ writer.stored = <<SLIPC_END, SLIPC_ESC_ESC>>

(***************************************************************************)
(* C23  END resets escape interpretation.  After slipc_decode_byte has     *)
(* consumed an END, in any state, right after an ESC included, the writes  *)
(* and the results of the calls for the bytes that follow are those of a   *)
(* new decoder given the same bytes, and the END leaves the malformed flag *)
(* as it was.                                                              *)
(***************************************************************************)
\* the results and the writer of slipc_decode_byte called byte after byte
RECURSIVE DecodeBytes(_, _, _)
DecodeBytes(self, w, bytes) ==
  IF bytes = <<>> THEN [res |-> <<>>, writer |-> w]
  ELSE LET d == slipc_decode_byte(self, w, Head(bytes))
           rest == DecodeBytes(d.self, d.writer, Tail(bytes))
       IN [res |-> <<d.res>> \o rest.res, writer |-> rest.writer]

\* the calls after call i: their bytes and their results
BytesAfter(i) == [j \in 1..(Len(hist) - i) |-> hist[i + j].arg.byte]
ResultsAfter(i) == [j \in 1..(Len(hist) - i) |-> hist[i + j].res]

EndStep(i) ==
  /\ hist[i].op = "decode_byte"
  /\ hist[i].arg.byte = SLIPC_END
  /\ \A j \in (i + 1)..Len(hist) : hist[j].op = "decode_byte"

C23_EndResets ==
  \A i \in 1..Len(hist) :
    EndStep(i) =>
      /\ hist[i].post.decoder.malformed = hist[i].pre.decoder.malformed
      /\ LET new == DecodeBytes(slipc_decoder_new(hist[i].pre.decoder.startbyte),
                                hist[i].post.writer, BytesAfter(i))
         IN /\ ResultsAfter(i) = new.res
            /\ writer.calls = new.writer.calls
            /\ writer.stored = new.writer.stored

\* ESC, END, and then an ESC_END, which is written as it is
C23_Witness ==
  /\ Len(hist) = 3
  /\ EndStep(2)
  /\ hist[1].op = "decode_byte" /\ hist[1].arg.byte = SLIPC_ESC
  /\ hist[3].arg.byte = SLIPC_ESC_END
  /\ hist[1].pre.writer = AcceptAll
  /\ writer.stored = <<SLIPC_ESC_END>>
  /\ ~slipc_decoder_is_malformed(decoder)

(***************************************************************************)
(* A caller that keeps one decoder and transfers from one in-memory source *)
(* after another into one writer.                                          *)
(***************************************************************************)
RescanWires == SeqsUpTo({SLIPC_END, SLIPC_ESC, SLIPC_ESC_END}, MaxReadScript)

\* slipc_decoder_transfer from a new array reader over the wire W
TransferNext(W) ==
  LET r == slipc_io_array_reader_create(W, Len(W))
      d == slipc_decoder_transfer(decoder, r, writer)
  IN /\ Len(hist) < MaxCalls
     /\ decoder' = d.self
     /\ reader' = d.reader
     /\ writer' = d.writer
     /\ buf' = W
     /\ hist' = Append(hist,
                       [op |-> "decoder_transfer",
                        arg |-> [startbyte |-> decoder.startbyte],
                        res |-> d.res,
                        pre |-> [Objects EXCEPT !.reader = r],
                        post |-> [Objects EXCEPT !.decoder = d.self,
                                                 !.reader = d.reader,
                                                 !.writer = d.writer]])
     /\ UNCHANGED encoder

InitRescan == \E s \in BOOLEAN : InitWith(<<>>, NoReader, AcceptAll, s, s)

NextRescan == \E W \in RescanWires : TransferNext(W)

SpecRescan == InitRescan /\ [][NextRescan]_vars

(***************************************************************************)
(* C24  The start delimiter the scan finds resets escape interpretation.   *)
(* A decoder with startbyte = true whose transfer ended incomplete right   *)
(* after an ESC wire byte: its next slipc_decoder_transfer decodes the     *)
(* bytes after the END it scans to as a new decoder would, so an ESC_END   *)
(* or ESC_ESC right after that END is written unchanged, and the malformed *)
(* flag is set only where a new decoder would set it.                      *)
(***************************************************************************)
AfterDanglingEsc(i) ==
  /\ hist[i].op = "decoder_transfer"
  /\ hist[i + 1].op = "decoder_transfer"
  /\ hist[i].pre.decoder.startbyte
  /\ hist[i].res = SLIPC_DECODER_MORE
  /\ hist[i].post.decoder.prev = SLIPC_ESC
  /\ hist[i + 1].pre.reader.kind = "array"
  /\ FirstEnd(hist[i + 1].pre.reader.buf, 1) # 0

C24_ScanResetsEscape ==
  \A i \in 1..(Len(hist) - 1) :
    AfterDanglingEsc(i) =>
      LET new == slipc_decoder_transfer(slipc_decoder_new(TRUE),
                                        hist[i + 1].pre.reader,
                                        hist[i + 1].pre.writer)
      IN /\ hist[i + 1].res = new.res
         /\ hist[i + 1].post.writer.stored = new.writer.stored
         /\ hist[i + 1].post.decoder.malformed =
              (hist[i + 1].pre.decoder.malformed \/ new.self.malformed)

(***************************************************************************)
(* C25  Previous-byte invariant.  After every slipc_decode_byte call,      *)
(* whatever it returns, the decoder's prev is the wire byte passed to the  *)
(* call, not the unescaped byte written; before the first call it is END.  *)
(***************************************************************************)
C25_PrevIsWireByte ==
  /\ hist = <<>> => decoder.prev = SLIPC_END
  /\ \A i \in 1..Len(hist) :
       hist[i].op = "decode_byte" =>
         hist[i].post.decoder.prev = hist[i].arg.byte

\* ESC, ESC_END with a writer that fails on its first write: END is what
\* the call tried to write, ESC_END is what prev holds, IO_ERROR the result
C25_Witness ==
  /\ Len(hist) = 2
  /\ hist[1].arg.byte = SLIPC_ESC
  /\ hist[2].arg.byte = SLIPC_ESC_END
  /\ WritesOf(hist[2]) = <<SLIPC_END>>
  /\ hist[2].res = SLIPC_DECODER_IO_ERROR
  /\ decoder.prev = SLIPC_ESC_END

(***************************************************************************)
(* C26  slipc_decode_byte reports a sink failure.  Whenever the step       *)
(* writes a byte and the write reports Eof or Error, slipc_decode_byte     *)
(* returns IO_ERROR, for an ordinary byte, a valid escape and the          *)
(* malformed pass-through alike; the steps that write nothing, END and ESC *)
(* in NORMAL state, never return IO_ERROR.                                 *)
(***************************************************************************)
SilentStep(c) ==
  \/ c.arg.byte = SLIPC_END
  \/ c.arg.byte = SLIPC_ESC /\ c.pre.decoder.prev # SLIPC_ESC

C26_DecodeByteSinkFailure ==
  \A i \in 1..Len(hist) :
    hist[i].op = "decode_byte" =>
      /\ SinkFailed(hist[i]) => hist[i].res = SLIPC_DECODER_IO_ERROR
      /\ SilentStep(hist[i]) =>
           /\ WritesOf(hist[i]) = <<>>
           /\ hist[i].res # SLIPC_DECODER_IO_ERROR
      /\ ~SilentStep(hist[i]) => Len(WritesOf(hist[i])) = 1

\* the malformed pass-through of ESC, 9 into an array writer with room for
\* one byte: the 9 is stored, the writer reports Eof, the call IO_ERROR
C26_Witness ==
  /\ Len(hist) = 2
  /\ hist[1].arg.byte = SLIPC_ESC
  /\ hist[2].arg.byte = 9
  /\ hist[1].pre.writer = slipc_io_array_writer_create(1)
  /\ SinkFailed(hist[2])
  /\ writer.stored = <<9>>
  /\ hist[2].res = SLIPC_DECODER_IO_ERROR

(***************************************************************************)
(* C27  Round trip with either start-byte policy.  A payload S that is not *)
(* empty, encoded by slipc_encode_packet with start = p and decoded from   *)
(* the bytes written with a new decoder with startbyte = p: the decoder    *)
(* returns EOF, writes exactly S, reads the wire to its end and leaves the *)
(* malformed flag false.                                                   *)
(***************************************************************************)
BothPoliciesCase ==
  /\ Len(hist) = 2
  /\ hist[1].op = "encode_packet"
  /\ hist[1].arg.buf # <<>>
  /\ hist[1].pre.writer = AcceptAll
  /\ hist[2].op = "decode_packet"
  /\ hist[2].arg.buf = hist[1].post.writer.stored
  /\ hist[2].pre.decoder = slipc_decoder_new(hist[1].arg.startbyte)
  /\ hist[2].pre.writer = AcceptAll

\* the bytes of its buffer the decode_packet call c left unread
LeftUnread(c) ==
  slipc_decoder_decode_packet(c.pre.decoder, c.pre.writer, c.arg.buf,
                              Len(c.arg.buf)).reader.len

C27_RoundTripBothPolicies ==
  BothPoliciesCase =>
    /\ hist[1].res = SLIPC_ENCODER_OK
    /\ hist[2].res = SLIPC_DECODER_EOF
    /\ hist[2].post.writer.stored = hist[1].arg.buf
    /\ hist[2].post.writer.calls = hist[1].arg.buf
    /\ LeftUnread(hist[2]) = 0
    /\ ~slipc_decoder_is_malformed(hist[2].post.decoder)

\* the payload END, ESC, 9 with start byte
C27_Witness ==
  /\ BothPoliciesCase
  /\ hist[1].arg.startbyte
  /\ hist[1].arg.buf = <<SLIPC_END, SLIPC_ESC, 9>>
  /\ hist[2].arg.buf = <<SLIPC_END, SLIPC_ESC, SLIPC_ESC_END, SLIPC_ESC,
                         SLIPC_ESC_ESC, 9, SLIPC_END>>
  /\ writer.stored = <<SLIPC_END, SLIPC_ESC, 9>>

(***************************************************************************)
(* A caller that decodes packet after packet from one in-memory stream of  *)
(* encoded packets.                                                        *)
(***************************************************************************)
\* the frames of the payloads ps, one after the other
RECURSIVE FrameAll(_, _)
FrameAll(ps, start) ==
  IF ps = <<>> THEN <<>> ELSE Frame(Head(ps), start) \o FrameAll(Tail(ps), start)

StreamPayloads == SeqsUpTo({SLIPC_END, SLIPC_ESC}, MaxReadScript) \ {<<>>}

InitStream ==
  \E ps \in SeqsUpTo(StreamPayloads, MaxCalls) \ {<<>>}, s \in BOOLEAN :
    LET W == FrameAll(ps, s)
    IN InitWith(W, slipc_io_array_reader_create(W, Len(W)), AcceptAll, s, s)

NextStream == DecoderTransfer

SpecStream == InitStream /\ [][NextStream]_vars

(***************************************************************************)
(* C28  Successive packets on one stream.  k payloads, none empty, each    *)
(* encoded with start-byte policy p and put one after the other into one   *)
(* in-memory source: successive slipc_decoder_transfer calls with one      *)
(* decoder of policy p return EOF and deliver the i-th payload on the i-th *)
(* call, reading up to the END that ends the i-th packet and no further;   *)
(* the call after the k-th returns NOT_FOUND and writes nothing.           *)
(***************************************************************************)
\* the payloads of the packets in the wire W, in order
RECURSIVE PayloadsIn(_)
PayloadsIn(W) ==
  LET e == FirstEnd(W, 1)
  IN IF e = 0 THEN <<>>
     ELSE IF e = 1 THEN PayloadsIn(Tail(W))
     ELSE <<Unstuffed(SubSeq(W, 1, e - 1))>> \o PayloadsIn(SubSeq(W, e + 1, Len(W)))

StreamCase ==
  /\ hist # <<>>
  /\ \A i \in 1..Len(hist) : hist[i].op = "decoder_transfer"
  /\ hist[1].pre.decoder = slipc_decoder_new(hist[1].arg.startbyte)
  /\ hist[1].pre.reader = slipc_io_array_reader_create(buf, Len(buf))
  /\ hist[1].pre.writer = AcceptAll
  /\ PayloadsIn(buf) # <<>>
  /\ buf = FrameAll(PayloadsIn(buf), hist[1].arg.startbyte)

C28_SuccessivePackets ==
  StreamCase =>
    \A i \in 1..Len(hist) :
      IF i <= Len(PayloadsIn(buf))
        THEN /\ hist[i].res = SLIPC_DECODER_EOF
             /\ StoredBy(hist[i]) = PayloadsIn(buf)[i]
             /\ hist[i].post.reader.pos =
                  Len(FrameAll(SubSeq(PayloadsIn(buf), 1, i), hist[1].arg.startbyte))
        ELSE /\ hist[i].res = SLIPC_DECODER_NOT_FOUND
             /\ WritesOf(hist[i]) = <<>>

\* two packets with start byte, both delivered
C28_Witness ==
  /\ StreamCase
  /\ Len(hist) = 2
  /\ hist[1].arg.startbyte
  /\ PayloadsIn(buf) = <<<<SLIPC_END>>, <<SLIPC_ESC, SLIPC_END>>>>
  /\ StoredBy(hist[1]) = <<SLIPC_END>>
  /\ StoredBy(hist[2]) = <<SLIPC_ESC, SLIPC_END>>
  /\ hist[2].res = SLIPC_DECODER_EOF
  /\ reader.len = 0

(***************************************************************************)
(* C29  A decoder with startbyte = true scans for the start delimiter on   *)
(* every slipc_decoder_transfer call.  The bytes a call reads up to and    *)
(* including its first END never reach the sink, also when the call before *)
(* returned MORE and the bytes continue its packet: a source without END   *)
(* gives NOT_FOUND and no write, and otherwise the call writes and returns *)
(* what decoding only the bytes after the first END, without a scan,       *)
(* writes and returns.                                                     *)
(***************************************************************************)
RescanCase(c) ==
  /\ c.op = "decoder_transfer"
  /\ c.pre.decoder.startbyte
  /\ c.pre.reader.kind = "array"
  /\ c.pre.reader.pos = 0

\* the call without the scan, on the bytes after the first END of the source
AfterFirstEnd(c) ==
  LET W == c.pre.reader.buf
      rest == SubSeq(W, FirstEnd(W, 1) + 1, Len(W))
  IN DecoderLoop(c.pre.decoder, slipc_io_array_reader_create(rest, Len(rest)),
                 c.pre.writer)

C29_ScanOnEveryCall ==
  \A i \in 1..Len(hist) :
    RescanCase(hist[i]) =>
      IF FirstEnd(hist[i].pre.reader.buf, 1) = 0
        THEN /\ hist[i].res = SLIPC_DECODER_NOT_FOUND
             /\ WritesOf(hist[i]) = <<>>
             /\ hist[i].post.decoder = hist[i].pre.decoder
        ELSE /\ hist[i].res = AfterFirstEnd(hist[i]).res
             /\ hist[i].post.writer = AfterFirstEnd(hist[i]).writer
             /\ hist[i].post.decoder = AfterFirstEnd(hist[i]).self

\* END, ESC_END leaves a packet incomplete; of the bytes ESC_END, END that
\* continue it, nothing reaches the sink
C29_Witness ==
  /\ Len(hist) = 2
  /\ RescanCase(hist[1]) /\ RescanCase(hist[2])
  /\ hist[1].pre.reader.buf = <<SLIPC_END, SLIPC_ESC_END>>
  /\ hist[1].res = SLIPC_DECODER_MORE
  /\ hist[2].pre.reader.buf = <<SLIPC_ESC_END, SLIPC_END>>
  /\ WritesOf(hist[2]) = <<>>
  /\ writer.stored = <<SLIPC_ESC_END>>

(***************************************************************************)
(* C30  Encoder output is well-formed wire data.  In the bytes a           *)
(* slipc_encode_packet or slipc_encoder_transfer that returns OK has       *)
(* written, END is the last byte, and the first one when the start byte is *)
(* asked for, and occurs nowhere between them, and every ESC between them  *)
(* is directly followed by ESC_END or ESC_ESC.  The bytes written are the  *)
(* bytes handed to the sink; a sink that takes all of every write it       *)
(* answers with OK holds exactly these bytes.                              *)
(***************************************************************************)
EncodedOk(c) ==
  /\ c.op \in {"encode_packet", "encoder_transfer"}
  /\ c.res = SLIPC_ENCODER_OK

\* the written bytes O without the delimiters
BodyOf(O, start) == SubSeq(O, IF start THEN 2 ELSE 1, Len(O) - 1)

WellFormedBody(B) ==
  \A j \in 1..Len(B) :
    /\ B[j] # SLIPC_END
    /\ B[j] = SLIPC_ESC =>
         j < Len(B) /\ B[j + 1] \in {SLIPC_ESC_END, SLIPC_ESC_ESC}

C30_EncoderOutputWellFormed ==
  \A i \in 1..Len(hist) :
    EncodedOk(hist[i]) =>
      LET O == WritesOf(hist[i])
      IN /\ Accepted(hist[i].pre.writer, hist[i].post.writer) => StoredBy(hist[i]) = O
         /\ Len(O) >= (IF hist[i].arg.startbyte THEN 2 ELSE 1)
         /\ O[Len(O)] = SLIPC_END
         /\ hist[i].arg.startbyte => O[1] = SLIPC_END
         /\ WellFormedBody(BodyOf(O, hist[i].arg.startbyte))

\* the payload END, ESC, 9 transferred with start byte
C30_Witness ==
  /\ Len(hist) = 1
  /\ EncodedOk(hist[1])
  /\ hist[1].op = "encoder_transfer"
  /\ hist[1].arg.startbyte
  /\ buf = <<SLIPC_END, SLIPC_ESC, 9>>
  /\ StoredBy(hist[1]) = <<SLIPC_END, SLIPC_ESC, SLIPC_ESC_END, SLIPC_ESC,
                           SLIPC_ESC_ESC, 9, SLIPC_END>>

(***************************************************************************)
(* C31  No buffering beyond one byte.  In slipc_encoder_transfer and       *)
(* slipc_decoder_transfer every read takes at most one byte from the       *)
(* source, and a byte read is processed to the end before the next read:   *)
(* when the call returns, the bytes it has taken from the source are       *)
(* exactly the bytes it has encoded or decoded.  The encoder has made all  *)
(* the writes for every byte but the last one read and at least one for    *)
(* the last, and only writes of the frame of the bytes read; the decoder   *)
(* has passed every byte read after the start scan to slipc_decode_byte,   *)
(* in order, and only the last of them did not return MORE.                *)
(***************************************************************************)
\* the bytes call c took from its array reader
TakenBy(c) ==
  SubSeq(c.pre.reader.buf, c.pre.reader.pos + 1, c.pre.reader.pos + ConsumedBy(c))

IsPrefix(a, b) == Len(a) <= Len(b) /\ a = SubSeq(b, 1, Len(a))

\* the writes of the encoder for the first j bytes it took
EncodedUpTo(c, j) ==
  (IF c.arg.startbyte THEN <<SLIPC_END>> ELSE <<>>) \o Stuff(SubSeq(TakenBy(c), 1, j))

EncoderUnbuffered(c) ==
  LET k == ConsumedBy(c)
  IN /\ k <= IterationsOf(c)
     /\ IsPrefix(WritesOf(c), EncodedUpTo(c, k) \o <<SLIPC_END>>)
     /\ k >= 1 => Len(WritesOf(c)) > Len(EncodedUpTo(c, k - 1))

\* the bytes the decoder took after its start scan
TakenAfterScan(c) ==
  LET D == TakenBy(c)
      e == FirstEnd(D, 1)
  IN IF ~c.pre.decoder.startbyte THEN D
     ELSE IF e = 0 THEN <<>>
     ELSE SubSeq(D, e + 1, Len(D))

DecoderUnbuffered(c) ==
  LET X == TakenAfterScan(c)
      run == DecodeBytes(c.pre.decoder, c.pre.writer, X)
  IN /\ ConsumedBy(c) <= IterationsOf(c)
     /\ c.post.writer = run.writer
     /\ \A j \in 1..(Len(X) - 1) : run.res[j] = SLIPC_DECODER_MORE

C31_NoBuffering ==
  \A i \in 1..Len(hist) :
    hist[i].pre.reader.kind = "array" =>
      /\ hist[i].op = "encoder_transfer" => EncoderUnbuffered(hist[i])
      /\ hist[i].op = "decoder_transfer" => DecoderUnbuffered(hist[i])

\* the encoder stopped by a full writer after the second of three bytes,
\* then the decoder stopped by the same writer at the third byte
C31_Witness ==
  /\ Len(hist) = 2
  /\ buf = <<9, SLIPC_END, 9>>
  /\ hist[1].op = "encoder_transfer"
  /\ hist[1].pre.writer = slipc_io_array_writer_create(2)
  /\ ConsumedBy(hist[1]) = 2
  /\ WritesOf(hist[1]) = <<9, SLIPC_ESC>>
  /\ hist[1].res = SLIPC_ENCODER_IO_ERROR
  /\ hist[2].op = "decoder_transfer"
  /\ ~hist[2].pre.decoder.startbyte
  /\ ConsumedBy(hist[2]) = 1
  /\ WritesOf(hist[2]) = <<9>>

(***************************************************************************)
(* A caller that reads from an array reader itself, asking for any number  *)
(* of bytes.                                                               *)
(***************************************************************************)
\* reader->read(reader->user_ctx, buf, &len) with *len = reqlen
ReadArray(reqlen) ==
  LET r == slipc_array_reader_read(reader, reqlen)
  IN /\ Len(hist) < MaxSteps
     /\ reader' = r.reader
     /\ hist' = Append(hist,
                       [op |-> "read", arg |-> [len |-> reqlen], res |-> r.res,
                        len |-> r.len, data |-> r.data,
                        pre |-> Objects,
                        post |-> [Objects EXCEPT !.reader = r.reader]])
     /\ UNCHANGED <<encoder, decoder, writer, buf>>

InitReader ==
  \E b \in Payloads :
    InitWith(b, slipc_io_array_reader_create(b, Len(b)), AcceptAll, FALSE, FALSE)

NextReader == \E n \in 0..MaxReadScript : ReadArray(n)

SpecReader == InitReader /\ [][NextReader]_vars

(***************************************************************************)
(* C32  The in-memory source.  Successive reads of an array reader over a  *)
(* buffer B deliver the bytes of B in order, each once.  A read returns    *)
(* no more bytes than asked for and no more than remain (it returns the    *)
(* smaller of the two numbers); its result is Eof exactly when no byte     *)
(* remains after it, so also with the last byte, and More otherwise, never *)
(* Error; a read of the exhausted reader returns no byte and Eof.          *)
(***************************************************************************)
\* the bytes the first n reads delivered, in order
RECURSIVE DeliveredBy(_)
DeliveredBy(n) == IF n = 0 THEN <<>> ELSE DeliveredBy(n - 1) \o hist[n].data

ReadAsSpecified(c) ==
  /\ c.len <= c.arg.len
  /\ c.len <= c.pre.reader.len
  /\ c.len = c.arg.len \/ c.len = c.pre.reader.len
  /\ Len(c.data) = c.len
  /\ c.res = (IF c.pre.reader.len - c.len = 0 THEN SLIPC_IO_READER_EOF
                                               ELSE SLIPC_IO_READER_MORE)
  /\ c.pre.reader.len = 0 => c.len = 0 /\ c.res = SLIPC_IO_READER_EOF

C32_ArrayReader ==
  (\A i \in 1..Len(hist) : hist[i].op = "read") =>
    /\ \A i \in 1..Len(hist) : ReadAsSpecified(hist[i])
    /\ IsPrefix(DeliveredBy(Len(hist)), buf)
    /\ Len(DeliveredBy(Len(hist))) + reader.len = Len(buf)

\* three bytes read as two, one with Eof, and none with Eof
C32_Witness ==
  /\ Len(hist) = 3
  /\ buf = <<9, SLIPC_END, SLIPC_ESC>>
  /\ hist[1].op = "read" /\ hist[1].arg.len = 2
  /\ hist[1].data = <<9, SLIPC_END>> /\ hist[1].res = SLIPC_IO_READER_MORE
  /\ hist[2].arg.len = 2
  /\ hist[2].data = <<SLIPC_ESC>> /\ hist[2].res = SLIPC_IO_READER_EOF
  /\ hist[3].arg.len = 1
  /\ hist[3].len = 0 /\ hist[3].res = SLIPC_IO_READER_EOF

(***************************************************************************)
(* A caller that writes to an array writer itself, one to MaxReadScript    *)
(* bytes per write.                                                        *)
(***************************************************************************)
WriteData == SeqsUpTo({9, SLIPC_END}, MaxReadScript) \ {<<>>}

\* writer->write(writer->user_ctx, data, &len) with *len = Len(data)
WriteArray(data) ==
  LET w == slipc_array_writer_write(writer, data, Len(data))
  IN /\ Len(hist) < MaxSteps
     /\ writer' = w.writer
     /\ hist' = Append(hist,
                       [op |-> "write", arg |-> [data |-> data], res |-> w.res,
                        len |-> w.len,
                        pre |-> Objects,
                        post |-> [Objects EXCEPT !.writer = w.writer]])
     /\ UNCHANGED <<encoder, decoder, reader, buf>>

InitWriter ==
  \E w \in ArrayWriters : InitWith(<<>>, MockReader(<<>>), w, FALSE, FALSE)

NextWriter == \E d \in WriteData : WriteArray(d)

SpecWriter == InitWriter /\ [][NextWriter]_vars

(***************************************************************************)
(* C33  The in-memory sink.  After any sequence of writes to an array      *)
(* writer of capacity C it holds at most C bytes, and they are the bytes   *)
(* it accepted, in the order of the writes.  Each write reports as its     *)
(* length the smaller of the requested length and the capacity left.  It   *)
(* answers OK only if all the data of the write was stored, and Eof if     *)
(* not all of it could be stored.                                          *)
(***************************************************************************)
\* the bytes the first n writes reported as accepted, in order
RECURSIVE AcceptedBy(_)
AcceptedBy(n) ==
  IF n = 0 THEN <<>>
  ELSE AcceptedBy(n - 1) \o SubSeq(hist[n].arg.data, 1, hist[n].len)

\* the capacity the array writer was created with
CapacityOf(w) == Len(w.stored) + w.len

WriteAsSpecified(c) ==
  LET req == Len(c.arg.data)
      left == c.pre.writer.len
  IN /\ c.len = (IF left < req THEN left ELSE req)
     /\ c.res = SLIPC_IO_WRITER_OK => c.len = req
     /\ c.len < req => c.res = SLIPC_IO_WRITER_EOF
     /\ CapacityOf(c.post.writer) = CapacityOf(c.pre.writer)

C33_ArrayWriter ==
  (\A i \in 1..Len(hist) : hist[i].op = "write") =>
    /\ \A i \in 1..Len(hist) : WriteAsSpecified(hist[i])
    /\ writer.len >= 0
    /\ Len(writer.stored) <= CapacityOf(writer)
    /\ writer.stored = AcceptedBy(Len(hist))

\* capacity 3: a write of two bytes is stored, of the next two bytes one is
\* stored with Eof, and of a third write nothing
C33_Witness ==
  /\ Len(hist) = 3
  /\ hist[1].op = "write" /\ hist[1].pre.writer.len = 3
  /\ hist[1].arg.data = <<9, SLIPC_END>>
  /\ hist[1].len = 2 /\ hist[1].res = SLIPC_IO_WRITER_OK
  /\ hist[2].arg.data = <<SLIPC_END, 9>>
  /\ hist[2].len = 1 /\ hist[2].res = SLIPC_IO_WRITER_EOF
  /\ hist[3].len = 0 /\ hist[3].res = SLIPC_IO_WRITER_EOF
  /\ writer.stored = <<9, SLIPC_END, SLIPC_END>>

(***************************************************************************)
(* C34  Output that fits the in-memory sink exactly.  The write that fills *)
(* the last free position of an array writer stores the byte and answers   *)
(* Eof.  So slipc_encode_packet into an array writer returns OK if and     *)
(* only if the capacity is greater than the number of wire bytes, and with *)
(* a capacity equal to that number all wire bytes are stored and the       *)
(* result is IO_ERROR; and slipc_decoder_decode_packet of a complete       *)
(* packet whose payload is not empty, into an array writer whose capacity  *)
(* is the payload's length, does not return EOF.                           *)
(***************************************************************************)
\* what slipc_decoder_decode_packet makes of call c's buffer with a sink that
\* accepts every write
UnboundedDecode(c) ==
  slipc_decoder_decode_packet(c.pre.decoder, AcceptAll, c.arg.buf, Len(c.arg.buf))

EncodeFits(c) ==
  LET wire == Frame(c.arg.buf, c.arg.startbyte)
      cap == c.pre.writer.len
  IN /\ c.res = SLIPC_ENCODER_OK <=> cap > Len(wire)
     /\ cap = Len(wire) =>
          StoredBy(c) = wire /\ c.res = SLIPC_ENCODER_IO_ERROR

DecodeFits(c) ==
  LET u == UnboundedDecode(c)
  IN (/\ u.res = SLIPC_DECODER_EOF
      /\ u.writer.stored # <<>>
      /\ c.pre.writer.len = Len(u.writer.stored))
       => c.res # SLIPC_DECODER_EOF

C34_ExactFit ==
  \A i \in 1..Len(hist) :
    hist[i].pre.writer.kind = "array" =>
      /\ hist[i].op = "encode_packet" => EncodeFits(hist[i])
      /\ hist[i].op = "decode_packet" => DecodeFits(hist[i])

(***************************************************************************)
(* C35  A read that reports Eof together with a byte.  As claimed: the     *)
(* transfers take it for a violation of the reader's contract, return      *)
(* IO_ERROR and do not encode, decode or emit the byte.                    *)
(* On the code the byte is the last byte of the source and is processed    *)
(* like any other.  slipc_encoder_transfer encodes and writes it, writes   *)
(* the terminating END and returns OK, or IO_ERROR if the sink fails.      *)
(* slipc_decoder_transfer decodes it and returns EOF if it is END and MORE *)
(* if not; when the byte falls into the start scan it is compared with END *)
(* and the transfer returns NOT_FOUND having written nothing.  Checked     *)
(* with the array reader, which reports Eof together with the last byte    *)
(* of its buffer.                                                          *)
(***************************************************************************)
\* call c made the read that delivered the last byte of the array reader's
\* buffer, which reports Eof
TookEofByte(c) ==
  /\ c.op \in {"encoder_transfer", "decoder_transfer"}
  /\ c.pre.reader.kind = "array"
  /\ c.pre.reader.len >= 1
  /\ c.post.reader.len = 0
  /\ ReadsOf(c)[ConsumedBy(c)] =
       [len |-> 1, byte |-> c.pre.reader.buf[Len(c.pre.reader.buf)],
        res |-> SLIPC_IO_READER_EOF]

EofByteOf(c) == c.pre.reader.buf[Len(c.pre.reader.buf)]

IoErrorOf(c) ==
  IF c.op = "encoder_transfer" THEN SLIPC_ENCODER_IO_ERROR
                               ELSE SLIPC_DECODER_IO_ERROR

C35_EofWithByteRejected ==
  \A i \in 1..Len(hist) :
    TookEofByte(hist[i]) =>
      /\ hist[i].res = IoErrorOf(hist[i])
      /\ hist[i].op = "encoder_transfer" =>
           Len(WritesOf(hist[i])) <= Len(EncodedUpTo(hist[i], ConsumedBy(hist[i]) - 1))
      /\ hist[i].op = "decoder_transfer" => hist[i].post.decoder.prev # EofByteOf(hist[i])

EncoderTakesEofByte(c) ==
  LET k == ConsumedBy(c)
  IN /\ IterationsOf(c) = k
     /\ Len(WritesOf(c)) > Len(EncodedUpTo(c, k - 1))
     /\ IsPrefix(WritesOf(c), EncodedUpTo(c, k) \o <<SLIPC_END>>)
     /\ Accepted(c.pre.writer, c.post.writer) =>
          /\ c.res = SLIPC_ENCODER_OK
          /\ WritesOf(c) = EncodedUpTo(c, k) \o <<SLIPC_END>>
     /\ ~Accepted(c.pre.writer, c.post.writer) => c.res = SLIPC_ENCODER_IO_ERROR

DecoderTakesEofByte(c) ==
  LET X == TakenAfterScan(c)
  IN IF X = <<>>
       THEN /\ c.res = SLIPC_DECODER_NOT_FOUND
            /\ WritesOf(c) = <<>>
            /\ IterationsOf(c) = ConsumedBy(c) + 1
       ELSE /\ IterationsOf(c) = ConsumedBy(c)
            /\ c.res = (IF EofByteOf(c) = SLIPC_END THEN SLIPC_DECODER_EOF
                                                   ELSE SLIPC_DECODER_MORE)
            /\ c.post.decoder.prev = EofByteOf(c)
            /\ c.post.writer = DecodeBytes(c.pre.decoder, c.pre.writer, X).writer

C35_EofWithByteAccepted ==
  \A i \in 1..Len(hist) :
    TookEofByte(hist[i]) =>
      /\ hist[i].op = "encoder_transfer" => EncoderTakesEofByte(hist[i])
      /\ hist[i].op = "decoder_transfer" => DecoderTakesEofByte(hist[i])

\* the decoder returns at the END of <<END, 9, END>>; the encoder then takes
\* 9 and END, the END together with Eof, and writes the whole packet
C35_Witness ==
  /\ Len(hist) = 2
  /\ buf = <<SLIPC_END, 9, SLIPC_END>>
  /\ hist[1].op = "decoder_transfer" /\ ~TookEofByte(hist[1])
  /\ hist[2].op = "encoder_transfer" /\ TookEofByte(hist[2])
  /\ EofByteOf(hist[2]) = SLIPC_END
  /\ hist[2].res = SLIPC_ENCODER_OK
  /\ WritesOf(hist[2]) = <<9, SLIPC_ESC, SLIPC_ESC_END, SLIPC_END>>

(***************************************************************************)
(* C36  Short reads.  When a read returns fewer bytes than asked for with  *)
(* the result More, which for the one-byte requests of the transfers is a  *)
(* read of no byte with More, slipc_encoder_transfer and                   *)
(* slipc_decoder_transfer report no failure and read again.                *)
(***************************************************************************)
\* the k-th read of call c returned no byte and More
ShortRead(c, k) ==
  /\ ReadsOf(c)[k].len = 0
  /\ ReadsOf(c)[k].res = SLIPC_IO_READER_MORE

ReportsFailure(c) ==
  \/ c.op = "encoder_transfer" /\ c.res = SLIPC_ENCODER_IO_ERROR
  \/ c.op = "decoder_transfer"
       /\ c.res \in {SLIPC_DECODER_IO_ERROR, SLIPC_DECODER_NOT_FOUND}

C36_ShortReadsTolerated ==
  \A i \in 1..Len(hist) :
    hist[i].op \in {"encoder_transfer", "decoder_transfer"} =>
      \A k \in 1..Len(ReadsOf(hist[i])) :
        ShortRead(hist[i], k) =>
          /\ k < Len(ReadsOf(hist[i]))
          /\ ~ReportsFailure(hist[i])

(***************************************************************************)
(* C37  slipc_decode_byte consumes its byte even when the write fails.     *)
(* When it returns IO_ERROR the decoder has already advanced: prev is the  *)
(* byte whose write failed, and after a malformed escape the malformed     *)
(* flag is already set.  So a second call with the same byte does not      *)
(* repeat the first: after ESC and an ESC_END whose write of END failed,   *)
(* another ESC_END is handed to the sink as ESC_END itself.                *)
(***************************************************************************)
FailedStep(c) == c.op = "decode_byte" /\ c.res = SLIPC_DECODER_IO_ERROR

MalformedEscape(c) ==
  /\ c.pre.decoder.prev = SLIPC_ESC
  /\ c.arg.byte \notin {SLIPC_END, SLIPC_ESC_END, SLIPC_ESC_ESC}

FailedValidEscape(c) ==
  /\ FailedStep(c)
  /\ c.pre.decoder.prev = SLIPC_ESC
  /\ c.arg.byte = SLIPC_ESC_END

C37_ErrorAdvancesState ==
  \A i \in 1..Len(hist) :
    FailedStep(hist[i]) =>
      /\ hist[i].post.decoder.prev = hist[i].arg.byte
      /\ MalformedEscape(hist[i]) => hist[i].post.decoder.malformed
      /\ (FailedValidEscape(hist[i]) /\ i < Len(hist)
            /\ hist[i + 1].op = "decode_byte"
            /\ hist[i + 1].arg.byte = SLIPC_ESC_END) =>
           /\ WritesOf(hist[i]) = <<SLIPC_END>>
           /\ WritesOf(hist[i + 1]) = <<SLIPC_ESC_END>>

\* ESC, an ESC_END whose write fails, and ESC_END again
C37_Witness ==
  /\ Len(hist) = 3
  /\ hist[1].op = "decode_byte" /\ hist[1].arg.byte = SLIPC_ESC
  /\ FailedValidEscape(hist[2])
  /\ hist[2].post.decoder.prev = SLIPC_ESC_END
  /\ hist[3].arg.byte = SLIPC_ESC_END
  /\ hist[3].res = SLIPC_DECODER_MORE
  /\ writer.stored = <<SLIPC_ESC_END>>

====
